---- MODULE Spec2Model ----
(***************************************************************************)
(* Streaming subprocess pipeline of quackvideo / reelpy.                   *)
(*                                                                         *)
(* One pipeline invocation is modelled: the caller's code (one of the      *)
(* operations below), the helper threads it starts, and the external       *)
(* engine process with its three pipes.                                    *)
(*                                                                         *)
(*   RX  reelpy.core.ffmpeg      FFmpegWrapper.extract_frames (subprocess) *)
(*   QX  quackvideo.core.ffmpeg  FFmpegWrapper.extract_frames (bindings)   *)
(*   QW  quackvideo.video.writer VideoWriter.write_frames                  *)
(*   RW  reelpy.video.writer     VideoWriter.write_frames                  *)
(*   SG  quackvideo.synthetic    AudioGenerator/VideoGenerator.generate    *)
(*   FX  quackvideo.core.operations.frames FrameExtractor.extract_frames   *)
(*                                                                         *)
(* The facade layer of quackvideo.core.operations has specifications of    *)
(* its own, in which no pipeline is running:                               *)
(*                                                                         *)
(*   RetrySpec   OP/AP  FFmpegOperation.execute_with_retry, AudioProcessor *)
(*   FrameSpec   FE     FrameExtractor.extract_frames and its output files *)
(*   VerifySpec  VF     FrameExtractor._verify_existing_frames             *)
(*   MetaSpec    PM     ProcessingMetadata and _process_output             *)
(*   LedgerSpec  MF     _create_metadata_file at file-system granularity   *)
(*   RequestSpec RQ     FFmpegCommand, VideoReaderConfig, the command      *)
(*                      builders, the probe, VideoReader, and the          *)
(*                      extract_frames entry points up to the engine start;*)
(*                      the frame-sequence generator of VideoReader and    *)
(*                      the sample generators of quackvideo.synthetic      *)
(*                                                                         *)
(* Abstractions: the byte stream on stdout/stdin is a sequence of chunks   *)
(* (a full frame i is the integer i >= 1, a partial final chunk is 0);   *)
(* stderr is a sequence of lines (line j is the integer j); time is not    *)
(* measured: a timeout may expire whenever the awaited event is not        *)
(* available; closing a pipe handle never raises.                          *)
(***************************************************************************)
EXTENDS Integers, Sequences, FiniteSets, TLC

\* ---------------------------------------------------------------- bounds
MaxFrames == 2      \* most full frames the engine writes / the caller feeds
MaxErrLines == 2    \* most diagnostic lines the engine writes to stderr
OutCap == 1         \* chunks the stdout pipe holds before the engine blocks
ErrCap == 1         \* lines the stderr pipe holds before the engine blocks
InCap == 1          \* chunks the stdin pipe holds before the caller blocks

\* a partial (shorter than width*height*3) final chunk on stdout; full frames are 1, 2, ...
IsShort(chunk) == chunk = 0

\* Popen.returncode of a process ended by signal sig (15 = SIGTERM, 9 = SIGKILL)
SignalRc(sig) == 0 - sig
\* exit status of an engine that lost the reader of a pipe it writes to
EPIPE_RC == SignalRc(13)

Ops == {"RX", "QX", "QW", "RW", "SG", "FX"}
DecodeOps == {"RX", "QX"}
EncodeOps == {"QW", "RW", "SG"}

VARIABLES
    op,           \* the operation this invocation runs
    pc,           \* position of the caller in the operation's code
    proc,         \* engine process: "none" | "running" | "exited"
    exitCode,     \* exit status of the engine once proc = "exited"
    reaped,       \* the caller has observed the exit (poll()/wait() returned)
    eop,          \* what the engine does next: out | short | err | in | exit | hang
    ignoresTerm,  \* the engine does not react to SIGTERM
    sigterm,      \* a SIGTERM has been delivered to the running engine
    framesWritten,\* full frames the engine has written to stdout
    shortWritten, \* the engine has written a partial final chunk
    outEOF,       \* the engine has closed its end of stdout
    errWritten,   \* lines the engine has written to stderr
    outPipe,      \* chunks in the stdout pipe, oldest first
    errPipe,      \* lines in the stderr pipe, oldest first
    inPipe,       \* chunks in the stdin pipe, oldest first
    outClosed,    \* process.stdout is closed on the caller's side
    errClosed,    \* process.stderr is closed on the caller's side
    inClosed,     \* process.stdin is closed on the caller's side
    outCloses,    \* calls of process.stdout.close()
    errCloses,    \* calls of process.stderr.close() / pipe.close()
    inCloses,     \* calls of process.stdin.close()
    waits,        \* calls of process.wait()
    terms,        \* SIGTERMs sent to the live engine
    kills,        \* SIGKILLs sent to the live engine
    drain,        \* stderr drain thread (_read): "none" | "run" | "done"
    srTimedOut,   \* stream_reader raised FFmpegTimeoutError in stderr_thread
    rt,           \* read_thread of RX: "idle" | "reading" | "done"
    errBuf,       \* error_output (StringIO): stderr lines drained so far
    got,          \* frames yielded to the caller so far
    err,          \* kind of the exception the operation raised, or "none"
    payload,      \* stderr lines carried by the raised error
    timedOut,     \* a wait or read bounded by `timeout` expired
    cancelled,    \* the caller closed the frame iterator before exhaustion
    frames,       \* encode input: frames[i] <=> frame i has the first frame's dimensions
    idx,          \* encode: index of the next frame to write
    \* ---- quackvideo.core.operations (retry, ledger, frame units)
    retries,      \* config.retries
    input,        \* the input file: "ok" | "missing" | "badformat" | "corrupt"
    attempt,      \* loop variable of `for attempt in range(config.retries)`
    runs,         \* engine invocations made by the current call
    sleeps,       \* time.sleep(config.retry_delay) calls made by the current call
    stderrs,      \* stderr text of every failed engine run of the call, in order
    metadata,     \* the call's ProcessingMetadata object (None before it is built)
    ledger,       \* content of .metadata.json (None while the file does not exist)
    ledgerWrites, \* _create_metadata_file calls made by the current call
    last_error,   \* local last_error of execute_with_retry
    raised,       \* the exception the call raised (None if none)
    result,       \* the value the call returned (None if none)
    outdir,       \* frame units in the output directory: name -> content
    totalFrames,  \* self._total_frames
    video,        \* the input video: units it yields at config.fps and probed nb_frames
    resume,       \* the `resume` argument of the current extract_frames call
    written,      \* unit names the engine wrote during the current call
    original,     \* frame_files returned by the first completed extraction
    deleted,      \* unit names removed from the output directory since then,
                  \* or by the last _verify_existing_frames call
    \* ---- requests, commands, probes and the ledger file on disk
    request,      \* the arguments of the current constructor or entry-point call
    cmd,          \* the engine command last built (None before that)
    probes,       \* ffprobe invocations made so far
    probed,       \* r_frame_rate of the probe document, split at "/"
    file,         \* raw content of .metadata.json: the chunks on disk, in order
    sequence      \* the generator made by extract_frame_sequence: what it was
                  \* asked, the timestamps left to read and those it yielded

vars == <<op, pc, proc, exitCode, reaped, eop, ignoresTerm, sigterm,
          framesWritten, shortWritten, outEOF, errWritten, outPipe, errPipe, inPipe,
          outClosed, errClosed, inClosed, outCloses, errCloses, inCloses,
          waits, terms, kills, drain, srTimedOut, rt, errBuf, got, err,
          payload, timedOut, cancelled, frames, idx,
          retries, input, attempt, runs, sleeps, stderrs, metadata, ledger,
          ledgerWrites, last_error, raised, result,
          outdir, totalFrames, video, resume, written, original, deleted,
          request, cmd, probes, probed, file, sequence>>

engineVars == <<proc, exitCode, eop, framesWritten, shortWritten, outEOF, errWritten>>
countVars == <<outCloses, errCloses, inCloses, waits, terms, kills>>
\* state of the streaming pipeline other than op and pc
pipeVars == <<engineVars, countVars, reaped, ignoresTerm, sigterm, outPipe, errPipe,
              inPipe, outClosed, errClosed, inClosed, drain, srTimedOut, rt, errBuf,
              got, err, payload, timedOut, cancelled, frames, idx>>
retryVars == <<retries, input, attempt, runs, sleeps, stderrs, metadata, ledger,
               ledgerWrites, last_error, raised, result>>
frameVars == <<outdir, totalFrames, video, resume, written, original, deleted>>
reqVars == <<request, cmd, probes, probed, file, sequence>>
opsVars == <<retryVars, frameVars, reqVars>>

\* ------------------------------------------------------------ inputs
RECURSIVE SeqsUpTo(_, _)
SeqsUpTo(S, n) ==
    IF n = 0 THEN {<<>>}
    ELSE LET shorter == SeqsUpTo(S, n - 1)
         IN shorter \cup {Append(s, x) : s \in {t \in shorter : Len(t) = n - 1}, x \in S}

\* frame sequences handed to an encoder; the first frame defines the dimensions
FrameInputs == {f \in SeqsUpTo(BOOLEAN, MaxFrames) : f = <<>> \/ f[1]}

StartPc(o) ==
    CASE o = "RX" -> "rx_spawn"
      [] o = "QX" -> "qx_spawn"
      [] o = "QW" -> "qw_check"
      [] o = "RW" -> "rw_check"
      [] o = "SG" -> "sg_spawn"
      [] o = "FX" -> "fx_spawn"

\* Optional[T]: None is the empty tuple, a present value x is <<x>>
None == <<>>
Some(x) == <<x>>
Value(o) == o[1]

\* ProcessingMetadata(): the field defaults (started_at is not modelled)
ProcessingMetadata ==
    [total_frames |-> None, completed_frames |-> 0, status |-> "in_progress",
     frame_integrity |-> <<>>, last_processed |-> None]

\* no request has been made, nothing was probed, no ledger file exists
ReqIdle ==
    /\ request = None
    /\ cmd = None
    /\ probes = 0
    /\ probed = None
    /\ file = None
    /\ sequence = None

\* no facade call has run yet: nothing counted, raised, returned or persisted
CallIdle ==
    /\ ReqIdle
    /\ attempt = 0
    /\ runs = 0
    /\ sleeps = 0
    /\ stderrs = <<>>
    /\ metadata = None
    /\ ledger = None
    /\ ledgerWrites = 0
    /\ last_error = None
    /\ raised = None
    /\ result = None
    /\ outdir = <<>>
    /\ totalFrames = None
    /\ resume = FALSE
    /\ written = {}
    /\ original = None
    /\ deleted = {}

\* the facade layer is not part of a bare pipeline invocation
OpsIdle ==
    /\ CallIdle
    /\ retries = 0
    /\ input = "ok"
    /\ video = [units |-> 0, nb_frames |-> None]

\* no engine process has been started and no pipe exists
PipeIdle ==
    /\ proc = "none" /\ exitCode = 0 /\ reaped = FALSE /\ eop = "none"
    /\ ignoresTerm = FALSE /\ sigterm = FALSE
    /\ framesWritten = 0 /\ shortWritten = FALSE /\ outEOF = FALSE /\ errWritten = 0
    /\ outPipe = <<>> /\ errPipe = <<>> /\ inPipe = <<>>
    /\ outClosed = FALSE /\ errClosed = FALSE /\ inClosed = FALSE
    /\ outCloses = 0 /\ errCloses = 0 /\ inCloses = 0
    /\ waits = 0 /\ terms = 0 /\ kills = 0
    /\ drain = "none" /\ srTimedOut = FALSE /\ rt = "idle"
    /\ errBuf = <<>> /\ got = <<>> /\ err = "none" /\ payload = <<>>
    /\ timedOut = FALSE /\ cancelled = FALSE /\ frames = <<>> /\ idx = 1

Init ==
    /\ op \in Ops
    /\ pc = StartPc(op)
    /\ proc = "none"
    /\ exitCode = 0
    /\ reaped = FALSE
    /\ eop = "none"
    /\ ignoresTerm \in BOOLEAN
    /\ sigterm = FALSE
    /\ framesWritten = 0
    /\ shortWritten = FALSE
    /\ outEOF = FALSE
    /\ errWritten = 0
    /\ outPipe = <<>>
    /\ errPipe = <<>>
    /\ inPipe = <<>>
    /\ outClosed = FALSE
    /\ errClosed = FALSE
    /\ inClosed = FALSE
    /\ outCloses = 0
    /\ errCloses = 0
    /\ inCloses = 0
    /\ waits = 0
    /\ terms = 0
    /\ kills = 0
    /\ drain = "none"
    /\ srTimedOut = FALSE
    /\ rt = "idle"
    /\ errBuf = <<>>
    /\ got = <<>>
    /\ err = "none"
    /\ payload = <<>>
    /\ timedOut = FALSE
    /\ cancelled = FALSE
    /\ frames \in (IF op \in EncodeOps THEN FrameInputs ELSE {<<>>})
    /\ idx = 1
    /\ OpsIdle

\* ------------------------------------------------------------ the engine
\* which of the engine's standard streams the operation connects to a pipe
OutPiped == op \in DecodeOps
ErrPiped == op \in {"RX", "QX", "QW", "RW", "FX"}
InPiped == op \in EncodeOps

\* the write end of the engine's output pipes is closed when it has exited
StdoutEOF == outEOF \/ proc = "exited"
StderrEOF == proc = "exited"
\* the engine sees end of input once the caller closed stdin and the pipe is empty
StdinEOF(ip, ic) == ic /\ ip = <<>>

\* what the engine may do after its current step
EngineChoices(fw, sw, ew, sawEOF) ==
    {"exit", "hang"}
      \cup (IF OutPiped /\ ~outEOF /\ ~sw /\ fw < MaxFrames THEN {"out"} ELSE {})
      \cup (IF OutPiped /\ ~outEOF /\ ~sw THEN {"short"} ELSE {})
      \cup (IF OutPiped /\ ~outEOF THEN {"closeout"} ELSE {})
      \cup (IF ew < MaxErrLines THEN {"err"} ELSE {})
      \cup (IF InPiped /\ ~sawEOF THEN {"in"} ELSE {})

\* exit statuses the engine may end with of its own accord: an encoder
\* succeeds only after it saw the end of its input
ExitCodes == IF InPiped /\ ~StdinEOF(inPipe, inClosed) THEN {1} ELSE {0, 1}

\* the engine writes the next full frame to stdout
EngineOut ==
    /\ proc = "running" /\ eop = "out"
    /\ IF outClosed
       THEN /\ proc' = "exited" /\ exitCode' = EPIPE_RC
            /\ UNCHANGED <<eop, framesWritten, outPipe>>
       ELSE /\ Len(outPipe) < OutCap
            /\ outPipe' = Append(outPipe, framesWritten + 1)
            /\ framesWritten' = framesWritten + 1
            /\ eop' \in EngineChoices(framesWritten + 1, shortWritten, errWritten, FALSE)
            /\ UNCHANGED <<proc, exitCode>>
    /\ UNCHANGED <<opsVars, op, pc, reaped, ignoresTerm, sigterm, shortWritten, outEOF, errWritten,
                   errPipe, inPipe, outClosed, errClosed, inClosed, countVars,
                   drain, srTimedOut, rt, errBuf, got, err, payload, timedOut,
                   cancelled, frames, idx>>

\* the engine writes a partial chunk to stdout; nothing follows it on stdout
EngineShort ==
    /\ proc = "running" /\ eop = "short"
    /\ IF outClosed
       THEN /\ proc' = "exited" /\ exitCode' = EPIPE_RC
            /\ UNCHANGED <<eop, shortWritten, outPipe>>
       ELSE /\ Len(outPipe) < OutCap
            /\ outPipe' = Append(outPipe, 0)
            /\ shortWritten' = TRUE
            /\ eop' \in EngineChoices(framesWritten, TRUE, errWritten, FALSE)
            /\ UNCHANGED <<proc, exitCode>>
    /\ UNCHANGED <<opsVars, op, pc, reaped, ignoresTerm, sigterm, framesWritten, outEOF,
                   errWritten, errPipe, inPipe, outClosed, errClosed, inClosed,
                   countVars, drain, srTimedOut, rt, errBuf, got, err, payload,
                   timedOut, cancelled, frames, idx>>

\* the engine closes its stdout and goes on (it writes nothing more to it)
EngineCloseOut ==
    /\ proc = "running" /\ eop = "closeout"
    /\ outEOF' = TRUE
    /\ eop' \in {"exit", "hang"} \cup (IF errWritten < MaxErrLines THEN {"err"} ELSE {})
    /\ UNCHANGED <<opsVars, op, pc, proc, exitCode, reaped, ignoresTerm, sigterm, framesWritten,
                   shortWritten, errWritten, outPipe, errPipe, inPipe, outClosed,
                   errClosed, inClosed, countVars, drain, srTimedOut, rt, errBuf,
                   got, err, payload, timedOut, cancelled, frames, idx>>

\* the engine writes the next diagnostic line to stderr; it blocks while the
\* pipe is full and nobody reads it
EngineErr ==
    /\ proc = "running" /\ eop = "err"
    /\ IF ErrPiped /\ errClosed
       THEN /\ proc' = "exited" /\ exitCode' = EPIPE_RC
            /\ UNCHANGED <<eop, errWritten, errPipe>>
       ELSE /\ ErrPiped => Len(errPipe) < ErrCap
            /\ errPipe' = IF ErrPiped THEN Append(errPipe, errWritten + 1) ELSE errPipe
            /\ errWritten' = errWritten + 1
            /\ eop' \in EngineChoices(framesWritten, shortWritten, errWritten + 1,
                                      StdinEOF(inPipe, inClosed))
            /\ UNCHANGED <<proc, exitCode>>
    /\ UNCHANGED <<opsVars, op, pc, reaped, ignoresTerm, sigterm, framesWritten, shortWritten, outEOF,
                   outPipe, inPipe, outClosed, errClosed, inClosed, countVars,
                   drain, srTimedOut, rt, errBuf, got, err, payload, timedOut,
                   cancelled, frames, idx>>

\* the engine reads the next chunk from stdin, or sees the end of its input
EngineIn ==
    /\ proc = "running" /\ eop = "in"
    /\ \/ /\ inPipe # <<>>
          /\ inPipe' = Tail(inPipe)
          /\ eop' \in EngineChoices(framesWritten, shortWritten, errWritten, FALSE)
       \/ /\ StdinEOF(inPipe, inClosed)
          /\ inPipe' = inPipe
          /\ eop' \in EngineChoices(framesWritten, shortWritten, errWritten, TRUE)
    /\ UNCHANGED <<opsVars, op, pc, proc, exitCode, reaped, ignoresTerm, sigterm, framesWritten,
                   shortWritten, outEOF, errWritten, outPipe, errPipe, outClosed, errClosed,
                   inClosed, countVars, drain, srTimedOut, rt, errBuf, got, err,
                   payload, timedOut, cancelled, frames, idx>>

\* the engine exits of its own accord
EngineExit ==
    /\ proc = "running" /\ eop = "exit"
    /\ proc' = "exited"
    /\ exitCode' \in ExitCodes
    /\ UNCHANGED <<opsVars, op, pc, reaped, eop, ignoresTerm, sigterm, framesWritten,
                   shortWritten, outEOF, errWritten, outPipe, errPipe, inPipe, outClosed,
                   errClosed, inClosed, countVars, drain, srTimedOut, rt, errBuf,
                   got, err, payload, timedOut, cancelled, frames, idx>>

\* the engine honours a delivered SIGTERM
EngineTerminated ==
    /\ proc = "running" /\ sigterm /\ ~ignoresTerm
    /\ proc' = "exited"
    /\ exitCode' = SignalRc(15)
    /\ UNCHANGED <<opsVars, op, pc, reaped, eop, ignoresTerm, sigterm, framesWritten,
                   shortWritten, outEOF, errWritten, outPipe, errPipe, inPipe, outClosed,
                   errClosed, inClosed, countVars, drain, srTimedOut, rt, errBuf,
                   got, err, payload, timedOut, cancelled, frames, idx>>

Engine ==
    \/ EngineOut
    \/ EngineShort
    \/ EngineCloseOut
    \/ EngineErr
    \/ EngineIn
    \/ EngineExit
    \/ EngineTerminated

\* ------------------------------------------------ Popen methods (helpers)
\* the choices of a freshly spawned engine
SpawnChoices == EngineChoices(0, FALSE, 0, FALSE)

\* ---------------------------------------------- reelpy: stream_reader
\* _read: one readline() that returns a line, appended to output_buffer
DrainLine ==
    /\ drain = "run" /\ ~errClosed /\ errPipe # <<>>
    /\ errBuf' = Append(errBuf, Head(errPipe))
    /\ errPipe' = Tail(errPipe)
    /\ UNCHANGED <<opsVars, op, pc, engineVars, reaped, ignoresTerm, sigterm, outPipe, inPipe,
                   outClosed, errClosed, inClosed, countVars, drain, srTimedOut, rt,
                   got, err, payload, timedOut, cancelled, frames, idx>>

\* _read: readline() returns b'' at end of stream, or raises because the main
\* thread closed the pipe; either way the finally clause calls pipe.close()
DrainClose ==
    /\ drain = "run"
    /\ \/ errClosed
       \/ errPipe = <<>> /\ StderrEOF
    /\ errClosed' = TRUE
    /\ errCloses' = errCloses + 1
    /\ drain' = "done"
    /\ UNCHANGED <<opsVars, op, pc, engineVars, reaped, ignoresTerm, sigterm, outPipe, errPipe,
                   inPipe, outClosed, inClosed, outCloses, inCloses, waits, terms,
                   kills, srTimedOut, rt, errBuf, got, err, payload, timedOut,
                   cancelled, frames, idx>>

\* stream_reader: thread.join(timeout) expires while _read is blocked in
\* readline(); FFmpegTimeoutError is raised inside stderr_thread
DrainTimeout ==
    /\ drain = "run" /\ ~srTimedOut
    /\ ~errClosed /\ errPipe = <<>> /\ ~StderrEOF
    /\ srTimedOut' = TRUE
    /\ UNCHANGED <<opsVars, op, pc, engineVars, reaped, ignoresTerm, sigterm, outPipe, errPipe,
                   inPipe, outClosed, errClosed, inClosed, countVars, drain, rt,
                   errBuf, got, err, payload, timedOut, cancelled, frames, idx>>

stream_reader ==
    \/ DrainLine
    \/ DrainClose
    \/ DrainTimeout

\* ------------------------- reelpy.core.ffmpeg: FFmpegWrapper.extract_frames
\* subprocess.Popen(...) and the start of stderr_thread; Popen may raise, and
\* then process is None and the finally clause has nothing to release
RX_Spawn ==
    /\ op = "RX" /\ pc = "rx_spawn"
    /\ \/ /\ proc' = "running"
          /\ eop' \in SpawnChoices
          /\ drain' = "run"
          /\ pc' = "rx_start_read"
          /\ err' = err
       \/ /\ err' = "OSError"
          /\ pc' = "done"
          /\ UNCHANGED <<proc, eop, drain>>
    /\ UNCHANGED <<opsVars, op, exitCode, reaped, ignoresTerm, sigterm, framesWritten,
                   shortWritten, outEOF, errWritten, outPipe, errPipe, inPipe, outClosed,
                   errClosed, inClosed, countVars, srTimedOut, rt, errBuf, got,
                   payload, timedOut, cancelled, frames, idx>>

\* read_thread = Thread(target=lambda: read_with_timeout()); read_thread.start()
RX_StartRead ==
    /\ op = "RX" /\ pc = "rx_start_read"
    /\ rt' = "reading"
    /\ pc' = "rx_join"
    /\ UNCHANGED <<opsVars, op, engineVars, reaped, ignoresTerm, sigterm, outPipe, errPipe,
                   inPipe, outClosed, errClosed, inClosed, countVars, drain,
                   srTimedOut, errBuf, got, err, payload, timedOut, cancelled,
                   frames, idx>>

\* read_thread runs read_with_timeout(): process.stdout.read(width*height*3)
\* takes the next chunk (or sees the end of the stream, or fails on a closed
\* file); the thread's result is dropped
RX_ReadThread ==
    /\ op = "RX" /\ rt = "reading"
    /\ \/ /\ ~outClosed /\ outPipe # <<>>
          /\ outPipe' = Tail(outPipe)
       \/ /\ ~outClosed /\ outPipe = <<>> /\ StdoutEOF
          /\ outPipe' = outPipe
       \/ /\ outClosed
          /\ outPipe' = outPipe
    /\ rt' = "done"
    /\ UNCHANGED <<opsVars, op, pc, engineVars, reaped, ignoresTerm, sigterm, errPipe, inPipe,
                   outClosed, errClosed, inClosed, countVars, drain, srTimedOut,
                   errBuf, got, err, payload, timedOut, cancelled, frames, idx>>

\* read_thread.join(timeout); if read_thread.is_alive(): raise FFmpegTimeoutError,
\* which the except clause re-raises as FFmpegTimeoutError
RX_Join ==
    /\ op = "RX" /\ pc = "rx_join"
    /\ \/ /\ rt = "done"
          /\ pc' = "rx_read"
          /\ UNCHANGED <<err, timedOut>>
       \/ /\ rt = "reading" /\ outPipe = <<>> /\ ~StdoutEOF
          /\ timedOut' = TRUE
          /\ err' = "FFmpegTimeoutError"
          /\ pc' = "rx_finally"
    /\ UNCHANGED <<opsVars, op, engineVars, reaped, ignoresTerm, sigterm, outPipe, errPipe,
                   inPipe, outClosed, errClosed, inClosed, countVars, drain,
                   srTimedOut, rt, errBuf, got, payload, cancelled, frames, idx>>

\* raw_frame = read_with_timeout() in the generator itself, then break on an
\* empty read, or reshape (ValueError on a partial chunk) and yield
RX_Read ==
    /\ op = "RX" /\ pc = "rx_read"
    /\ \/ /\ outPipe # <<>> /\ ~IsShort(Head(outPipe))
          /\ outPipe' = Tail(outPipe)
          /\ got' = Append(got, Head(outPipe))
          /\ pc' = "rx_yield"
          /\ err' = err
       \/ /\ outPipe # <<>> /\ IsShort(Head(outPipe))
          /\ outPipe' = Tail(outPipe)
          /\ err' = "ValueError"
          /\ pc' = "rx_finally"
          /\ got' = got
       \/ /\ outPipe = <<>> /\ StdoutEOF
          /\ pc' = "rx_wait"
          /\ UNCHANGED <<outPipe, got, err>>
    /\ UNCHANGED <<opsVars, op, engineVars, reaped, ignoresTerm, sigterm, errPipe, inPipe,
                   outClosed, errClosed, inClosed, countVars, drain, srTimedOut, rt,
                   errBuf, payload, timedOut, cancelled, frames, idx>>

\* the consumer asks for the next frame: the generator resumes after yield
RX_Resume ==
    /\ op = "RX" /\ pc = "rx_yield"
    /\ pc' = "rx_start_read"
    /\ UNCHANGED <<opsVars, op, engineVars, reaped, ignoresTerm, sigterm, outPipe, errPipe,
                   inPipe, outClosed, errClosed, inClosed, countVars, drain,
                   srTimedOut, rt, errBuf, got, err, payload, timedOut, cancelled,
                   frames, idx>>

\* the consumer closes or drops the iterator: GeneratorExit is raised at the
\* yield, passes the except clause and runs the finally clause
RX_Close ==
    /\ op = "RX" /\ pc = "rx_yield"
    /\ cancelled' = TRUE
    /\ pc' = "rx_finally"
    /\ UNCHANGED <<opsVars, op, engineVars, reaped, ignoresTerm, sigterm, outPipe, errPipe,
                   inPipe, outClosed, errClosed, inClosed, countVars, drain,
                   srTimedOut, rt, errBuf, got, err, payload, timedOut, frames, idx>>

\* process.wait(timeout=timeout); a non-zero returncode raises RuntimeError
\* with error_output.getvalue(); TimeoutExpired becomes FFmpegTimeoutError
RX_Wait ==
    /\ op = "RX" /\ pc = "rx_wait"
    /\ waits' = waits + 1
    /\ \/ /\ proc = "exited"
          /\ reaped' = TRUE
          /\ IF exitCode # 0
             THEN err' = "RuntimeError" /\ payload' = errBuf
             ELSE UNCHANGED <<err, payload>>
          /\ timedOut' = timedOut
       \/ /\ proc = "running"
          /\ timedOut' = TRUE
          /\ err' = "FFmpegTimeoutError"
          /\ UNCHANGED <<reaped, payload>>
    /\ pc' = "rx_finally"
    /\ UNCHANGED <<opsVars, op, engineVars, ignoresTerm, sigterm, outPipe, errPipe, inPipe,
                   outClosed, errClosed, inClosed, outCloses, errCloses, inCloses,
                   terms, kills, drain, srTimedOut, rt, errBuf, got, cancelled,
                   frames, idx>>

\* finally: process.stdout.close(); process.stderr.close()
RX_FinallyClose ==
    /\ op = "RX" /\ pc = "rx_finally"
    /\ outClosed' = TRUE /\ outCloses' = outCloses + 1
    /\ errClosed' = TRUE /\ errCloses' = errCloses + 1
    /\ pc' = "rx_poll"
    /\ UNCHANGED <<opsVars, op, engineVars, reaped, ignoresTerm, sigterm, outPipe, errPipe,
                   inPipe, inClosed, inCloses, waits, terms, kills, drain,
                   srTimedOut, rt, errBuf, got, err, payload, timedOut, cancelled,
                   frames, idx>>

\* finally: if process.poll() is None: process.terminate()
RX_FinallyPoll ==
    /\ op = "RX" /\ pc = "rx_poll"
    /\ IF proc = "running"
       THEN /\ terms' = terms + 1
            /\ sigterm' = TRUE
            /\ pc' = "rx_grace"
            /\ reaped' = reaped
       ELSE /\ reaped' = TRUE
            /\ pc' = "done"
            /\ UNCHANGED <<terms, sigterm>>
    /\ UNCHANGED <<opsVars, op, engineVars, ignoresTerm, outPipe, errPipe, inPipe, outClosed,
                   errClosed, inClosed, outCloses, errCloses, inCloses, waits, kills,
                   drain, srTimedOut, rt, errBuf, got, err, payload, timedOut,
                   cancelled, frames, idx>>

\* mutant of RX_FinallyGrace: TimeoutExpired of the grace wait is swallowed
\* and no SIGKILL is sent
RX_FinallyGrace_NoKill ==
    /\ op = "RX" /\ pc = "rx_grace"
    /\ waits' = waits + 1
    /\ reaped' = (reaped \/ proc = "exited")
    /\ pc' = "done"
    /\ UNCHANGED <<opsVars, op, engineVars, ignoresTerm, sigterm, outPipe, errPipe, inPipe,
                   outClosed, errClosed, inClosed, outCloses, errCloses, inCloses,
                   terms, kills, drain, srTimedOut, rt, errBuf, got, err, payload,
                   timedOut, cancelled, frames, idx>>

\* finally: process.wait(timeout=1), and process.kill() on TimeoutExpired
RX_FinallyGrace ==
    /\ op = "RX" /\ pc = "rx_grace"
    /\ waits' = waits + 1
    /\ IF proc = "running"
       THEN /\ kills' = kills + 1
            /\ proc' = "exited"
            /\ exitCode' = SignalRc(9)
            /\ reaped' = reaped
       ELSE /\ reaped' = TRUE
            /\ UNCHANGED <<kills, proc, exitCode>>
    /\ pc' = "done"
    /\ UNCHANGED <<opsVars, op, eop, framesWritten, shortWritten, outEOF, errWritten, ignoresTerm,
                   sigterm, outPipe, errPipe, inPipe, outClosed, errClosed, inClosed,
                   outCloses, errCloses, inCloses, terms, drain, srTimedOut, rt,
                   errBuf, got, err, payload, timedOut, cancelled, frames, idx>>

RX_extract_frames ==
    \/ RX_Spawn
    \/ RX_StartRead
    \/ RX_ReadThread
    \/ RX_Join
    \/ RX_Read
    \/ RX_Resume
    \/ RX_Close
    \/ RX_Wait
    \/ RX_FinallyClose
    \/ RX_FinallyPoll
    \/ RX_FinallyGrace

\* --------------------- quackvideo.core.ffmpeg: FFmpegWrapper.extract_frames
\* stream.run_async(pipe_stdout=True, pipe_stderr=True); if it raises, the
\* except clause turns it into FFmpegError and the finally clause's NameError
\* on the unbound `process` is swallowed
QX_Spawn ==
    /\ op = "QX" /\ pc = "qx_spawn"
    /\ \/ /\ proc' = "running"
          /\ eop' \in SpawnChoices
          /\ pc' = "qx_read"
          /\ err' = err
       \/ /\ err' = "FFmpegError"
          /\ pc' = "done"
          /\ UNCHANGED <<proc, eop>>
    /\ UNCHANGED <<opsVars, op, exitCode, reaped, ignoresTerm, sigterm, framesWritten,
                   shortWritten, outEOF, errWritten, outPipe, errPipe, inPipe, outClosed,
                   errClosed, inClosed, countVars, drain, srTimedOut, rt, errBuf,
                   got, payload, timedOut, cancelled, frames, idx>>

\* in_bytes = process.stdout.read(width*height*3): break on an empty read,
\* yield a full frame; on a partial chunk reshape raises and the inner except
\* clause closes stdout and stderr, calls process.terminate() and raises
\* FFmpegError, which the outer except clause wraps in FFmpegError again
QX_Read ==
    /\ op = "QX" /\ pc = "qx_read"
    /\ \/ /\ outPipe # <<>> /\ ~IsShort(Head(outPipe))
          /\ outPipe' = Tail(outPipe)
          /\ got' = Append(got, Head(outPipe))
          /\ pc' = "qx_yield"
          /\ UNCHANGED <<err, outClosed, errClosed, outCloses, errCloses, terms,
                         sigterm, reaped>>
       \/ /\ outPipe # <<>> /\ IsShort(Head(outPipe))
          /\ outPipe' = Tail(outPipe)
          /\ outClosed' = TRUE /\ outCloses' = outCloses + 1
          /\ errClosed' = TRUE /\ errCloses' = errCloses + 1
          /\ IF proc = "running"
             THEN terms' = terms + 1 /\ sigterm' = TRUE /\ reaped' = reaped
             ELSE reaped' = TRUE /\ UNCHANGED <<terms, sigterm>>
          /\ err' = "FFmpegError"
          /\ pc' = "qx_finally"
          /\ got' = got
       \/ /\ outPipe = <<>> /\ StdoutEOF
          /\ pc' = "qx_wait"
          /\ UNCHANGED <<outPipe, got, err, outClosed, errClosed, outCloses,
                         errCloses, terms, sigterm, reaped>>
    /\ UNCHANGED <<opsVars, op, engineVars, ignoresTerm, errPipe, inPipe, inClosed, inCloses,
                   waits, kills, drain, srTimedOut, rt, errBuf, payload, timedOut,
                   cancelled, frames, idx>>

\* the consumer asks for the next frame: the generator resumes after yield
QX_Resume ==
    /\ op = "QX" /\ pc = "qx_yield"
    /\ pc' = "qx_read"
    /\ UNCHANGED <<opsVars, op, engineVars, reaped, ignoresTerm, sigterm, outPipe, errPipe,
                   inPipe, outClosed, errClosed, inClosed, countVars, drain,
                   srTimedOut, rt, errBuf, got, err, payload, timedOut, cancelled,
                   frames, idx>>

\* mutant of QX_Close: the generator ends at GeneratorExit without running
\* the finally clause
QX_Close_NoFinally ==
    /\ op = "QX" /\ pc = "qx_yield"
    /\ cancelled' = TRUE
    /\ pc' = "done"
    /\ UNCHANGED <<opsVars, op, engineVars, reaped, ignoresTerm, sigterm, outPipe, errPipe,
                   inPipe, outClosed, errClosed, inClosed, countVars, drain,
                   srTimedOut, rt, errBuf, got, err, payload, timedOut, frames, idx>>

\* the consumer closes or drops the iterator: GeneratorExit is raised at the
\* yield; it is not an Exception, so only the finally clause runs
QX_Close ==
    /\ op = "QX" /\ pc = "qx_yield"
    /\ cancelled' = TRUE
    /\ pc' = "qx_finally"
    /\ UNCHANGED <<opsVars, op, engineVars, reaped, ignoresTerm, sigterm, outPipe, errPipe,
                   inPipe, outClosed, errClosed, inClosed, countVars, drain,
                   srTimedOut, rt, errBuf, got, err, payload, timedOut, frames, idx>>

\* process.wait(timeout=timeout); a non-zero returncode raises FFmpegError with
\* process.stderr.read(); TimeoutExpired is caught by `except Exception` and
\* becomes FFmpegError as well
QX_Wait ==
    /\ op = "QX" /\ pc = "qx_wait"
    /\ waits' = waits + 1
    /\ \/ /\ proc = "exited"
          /\ reaped' = TRUE
          /\ IF exitCode # 0
             THEN err' = "FFmpegError" /\ payload' = errPipe /\ errPipe' = <<>>
             ELSE UNCHANGED <<err, payload, errPipe>>
          /\ timedOut' = timedOut
       \/ /\ proc = "running"
          /\ timedOut' = TRUE
          /\ err' = "FFmpegError"
          /\ UNCHANGED <<reaped, payload, errPipe>>
    /\ pc' = "qx_finally"
    /\ UNCHANGED <<opsVars, op, engineVars, ignoresTerm, sigterm, outPipe, inPipe, outClosed,
                   errClosed, inClosed, outCloses, errCloses, inCloses, terms, kills,
                   drain, srTimedOut, rt, errBuf, got, cancelled, frames, idx>>

\* finally: process.stdout.close(); process.stderr.close()
QX_FinallyClose ==
    /\ op = "QX" /\ pc = "qx_finally"
    /\ outClosed' = TRUE /\ outCloses' = outCloses + 1
    /\ errClosed' = TRUE /\ errCloses' = errCloses + 1
    /\ pc' = "qx_poll"
    /\ UNCHANGED <<opsVars, op, engineVars, reaped, ignoresTerm, sigterm, outPipe, errPipe,
                   inPipe, inClosed, inCloses, waits, terms, kills, drain,
                   srTimedOut, rt, errBuf, got, err, payload, timedOut, cancelled,
                   frames, idx>>

\* finally: if process.poll() is None: process.terminate()
QX_FinallyPoll ==
    /\ op = "QX" /\ pc = "qx_poll"
    /\ IF proc = "running"
       THEN /\ terms' = terms + 1
            /\ sigterm' = TRUE
            /\ pc' = "qx_grace"
            /\ reaped' = reaped
       ELSE /\ reaped' = TRUE
            /\ pc' = "done"
            /\ UNCHANGED <<terms, sigterm>>
    /\ UNCHANGED <<opsVars, op, engineVars, ignoresTerm, outPipe, errPipe, inPipe, outClosed,
                   errClosed, inClosed, outCloses, errCloses, inCloses, waits, kills,
                   drain, srTimedOut, rt, errBuf, got, err, payload, timedOut,
                   cancelled, frames, idx>>

\* finally: process.wait(timeout=1), and process.kill() on any exception
QX_FinallyGrace ==
    /\ op = "QX" /\ pc = "qx_grace"
    /\ waits' = waits + 1
    /\ IF proc = "running"
       THEN /\ kills' = kills + 1
            /\ proc' = "exited"
            /\ exitCode' = SignalRc(9)
            /\ reaped' = reaped
       ELSE /\ reaped' = TRUE
            /\ UNCHANGED <<kills, proc, exitCode>>
    /\ pc' = "done"
    /\ UNCHANGED <<opsVars, op, eop, framesWritten, shortWritten, outEOF, errWritten, ignoresTerm,
                   sigterm, outPipe, errPipe, inPipe, outClosed, errClosed, inClosed,
                   outCloses, errCloses, inCloses, terms, drain, srTimedOut, rt,
                   errBuf, got, err, payload, timedOut, cancelled, frames, idx>>

QX_extract_frames ==
    \/ QX_Spawn
    \/ QX_Read
    \/ QX_Resume
    \/ QX_Close
    \/ QX_Wait
    \/ QX_FinallyClose
    \/ QX_FinallyPoll
    \/ QX_FinallyGrace

\* ------------------------ quackvideo.video.writer: VideoWriter.write_frames
\* (write_frames_from_stream runs the same steps on an iterator)
\* `if not frames: raise ValueError`, then stream.run_async(pipe_stdin=True,
\* pipe_stderr=True); if run_async raises, the error is logged and re-raised,
\* and the finally clause's NameError on `process` is logged
QW_Spawn ==
    /\ op = "QW" /\ pc = "qw_check"
    /\ \/ /\ frames = <<>>
          /\ err' = "ValueError"
          /\ pc' = "done"
          /\ UNCHANGED <<proc, eop>>
       \/ /\ frames # <<>>
          /\ proc' = "running"
          /\ eop' \in SpawnChoices
          /\ pc' = "qw_write"
          /\ err' = err
       \/ /\ frames # <<>>
          /\ err' = "OSError"
          /\ pc' = "done"
          /\ UNCHANGED <<proc, eop>>
    /\ UNCHANGED <<opsVars, op, exitCode, reaped, ignoresTerm, sigterm, framesWritten,
                   shortWritten, outEOF, errWritten, outPipe, errPipe, inPipe, outClosed,
                   errClosed, inClosed, countVars, drain, srTimedOut, rt, errBuf,
                   got, payload, timedOut, cancelled, frames, idx>>

\* for frame in frames: the dimension check (ValueError), then
\* process.stdin.write(frame.tobytes()), which fails once the engine is gone
\* and blocks while the pipe is full
QW_Write ==
    /\ op = "QW" /\ pc = "qw_write" /\ idx <= Len(frames)
    /\ \/ /\ ~frames[idx]
          /\ err' = "ValueError"
          /\ pc' = "qw_finally"
          /\ UNCHANGED <<inPipe, idx>>
       \/ /\ frames[idx] /\ proc = "exited"
          /\ err' = "BrokenPipeError"
          /\ pc' = "qw_finally"
          /\ UNCHANGED <<inPipe, idx>>
       \/ /\ frames[idx] /\ proc = "running" /\ Len(inPipe) < InCap
          /\ inPipe' = Append(inPipe, idx)
          /\ idx' = idx + 1
          /\ UNCHANGED <<err, pc>>
    /\ UNCHANGED <<opsVars, op, engineVars, reaped, ignoresTerm, sigterm, outPipe, errPipe,
                   outClosed, errClosed, inClosed, countVars, drain, srTimedOut, rt,
                   errBuf, got, payload, timedOut, cancelled, frames>>

\* process.stdin.close() after the last frame
QW_CloseStdin ==
    /\ op = "QW" /\ pc = "qw_write" /\ idx > Len(frames)
    /\ inClosed' = TRUE
    /\ inCloses' = inCloses + 1
    /\ pc' = "qw_wait"
    /\ UNCHANGED <<opsVars, op, engineVars, reaped, ignoresTerm, sigterm, outPipe, errPipe,
                   inPipe, outClosed, errClosed, outCloses, errCloses, waits, terms,
                   kills, drain, srTimedOut, rt, errBuf, got, err, payload, timedOut,
                   cancelled, frames, idx>>

\* process.wait() without a timeout; a non-zero returncode raises RuntimeError
\* with process.stderr.read()
QW_Wait ==
    /\ op = "QW" /\ pc = "qw_wait"
    /\ proc = "exited"
    /\ waits' = waits + 1
    /\ reaped' = TRUE
    /\ IF exitCode # 0
       THEN err' = "RuntimeError" /\ payload' = errPipe /\ errPipe' = <<>>
       ELSE UNCHANGED <<err, payload, errPipe>>
    /\ pc' = "qw_finally"
    /\ UNCHANGED <<opsVars, op, engineVars, ignoresTerm, sigterm, outPipe, inPipe, outClosed,
                   errClosed, inClosed, outCloses, errCloses, inCloses, terms, kills,
                   drain, srTimedOut, rt, errBuf, got, timedOut, cancelled, frames,
                   idx>>

\* finally: if process.poll() is None: process.terminate()
QW_FinallyPoll ==
    /\ op = "QW" /\ pc = "qw_finally"
    /\ IF proc = "running"
       THEN /\ terms' = terms + 1
            /\ sigterm' = TRUE
            /\ pc' = "qw_grace"
            /\ reaped' = reaped
       ELSE /\ reaped' = TRUE
            /\ pc' = "done"
            /\ UNCHANGED <<terms, sigterm>>
    /\ UNCHANGED <<opsVars, op, engineVars, ignoresTerm, outPipe, errPipe, inPipe, outClosed,
                   errClosed, inClosed, outCloses, errCloses, inCloses, waits, kills,
                   drain, srTimedOut, rt, errBuf, got, err, payload, timedOut,
                   cancelled, frames, idx>>

\* finally: process.wait(timeout=1); TimeoutExpired is caught and logged
QW_FinallyGrace ==
    /\ op = "QW" /\ pc = "qw_grace"
    /\ waits' = waits + 1
    /\ reaped' = (reaped \/ proc = "exited")
    /\ pc' = "done"
    /\ UNCHANGED <<opsVars, op, engineVars, ignoresTerm, sigterm, outPipe, errPipe, inPipe,
                   outClosed, errClosed, inClosed, outCloses, errCloses, inCloses,
                   terms, kills, drain, srTimedOut, rt, errBuf, got, err, payload,
                   timedOut, cancelled, frames, idx>>

QW_write_frames ==
    \/ QW_Spawn
    \/ QW_Write
    \/ QW_CloseStdin
    \/ QW_Wait
    \/ QW_FinallyPoll
    \/ QW_FinallyGrace

\* ---------------------------- reelpy.video.writer: VideoWriter.write_frames
\* `if not frames: raise ValueError`, then subprocess.Popen(stdin=PIPE,
\* stderr=PIPE) outside the try block
RW_Spawn ==
    /\ op = "RW" /\ pc = "rw_check"
    /\ \/ /\ frames = <<>>
          /\ err' = "ValueError"
          /\ pc' = "done"
          /\ UNCHANGED <<proc, eop>>
       \/ /\ frames # <<>>
          /\ proc' = "running"
          /\ eop' \in SpawnChoices
          /\ pc' = "rw_write"
          /\ err' = err
       \/ /\ frames # <<>>
          /\ err' = "OSError"
          /\ pc' = "done"
          /\ UNCHANGED <<proc, eop>>
    /\ UNCHANGED <<opsVars, op, exitCode, reaped, ignoresTerm, sigterm, framesWritten,
                   shortWritten, outEOF, errWritten, outPipe, errPipe, inPipe, outClosed,
                   errClosed, inClosed, countVars, drain, srTimedOut, rt, errBuf,
                   got, payload, timedOut, cancelled, frames, idx>>

\* for frame in frames: the dimension check, then process.stdin.write(...)
RW_Write ==
    /\ op = "RW" /\ pc = "rw_write" /\ idx <= Len(frames)
    /\ \/ /\ ~frames[idx]
          /\ err' = "ValueError"
          /\ pc' = "rw_finally"
          /\ UNCHANGED <<inPipe, idx>>
       \/ /\ frames[idx] /\ proc = "exited"
          /\ err' = "BrokenPipeError"
          /\ pc' = "rw_finally"
          /\ UNCHANGED <<inPipe, idx>>
       \/ /\ frames[idx] /\ proc = "running" /\ Len(inPipe) < InCap
          /\ inPipe' = Append(inPipe, idx)
          /\ idx' = idx + 1
          /\ UNCHANGED <<err, pc>>
    /\ UNCHANGED <<opsVars, op, engineVars, reaped, ignoresTerm, sigterm, outPipe, errPipe,
                   outClosed, errClosed, inClosed, countVars, drain, srTimedOut, rt,
                   errBuf, got, payload, timedOut, cancelled, frames>>

\* process.stdin.close() after the last frame
RW_CloseStdin ==
    /\ op = "RW" /\ pc = "rw_write" /\ idx > Len(frames)
    /\ inClosed' = TRUE
    /\ inCloses' = inCloses + 1
    /\ pc' = "rw_wait"
    /\ UNCHANGED <<opsVars, op, engineVars, reaped, ignoresTerm, sigterm, outPipe, errPipe,
                   inPipe, outClosed, errClosed, outCloses, errCloses, waits, terms,
                   kills, drain, srTimedOut, rt, errBuf, got, err, payload, timedOut,
                   cancelled, frames, idx>>

\* process.wait() without a timeout; a non-zero returncode raises RuntimeError
\* with process.stderr.read()
RW_Wait ==
    /\ op = "RW" /\ pc = "rw_wait"
    /\ proc = "exited"
    /\ waits' = waits + 1
    /\ reaped' = TRUE
    /\ IF exitCode # 0
       THEN err' = "RuntimeError" /\ payload' = errPipe /\ errPipe' = <<>>
       ELSE UNCHANGED <<err, payload, errPipe>>
    /\ pc' = "rw_finally"
    /\ UNCHANGED <<opsVars, op, engineVars, ignoresTerm, sigterm, outPipe, inPipe, outClosed,
                   errClosed, inClosed, outCloses, errCloses, inCloses, terms, kills,
                   drain, srTimedOut, rt, errBuf, got, timedOut, cancelled, frames,
                   idx>>

\* finally: process.stdin.close(); process.stderr.close()
RW_FinallyClose ==
    /\ op = "RW" /\ pc = "rw_finally"
    /\ inClosed' = TRUE /\ inCloses' = inCloses + 1
    /\ errClosed' = TRUE /\ errCloses' = errCloses + 1
    /\ pc' = "rw_poll"
    /\ UNCHANGED <<opsVars, op, engineVars, reaped, ignoresTerm, sigterm, outPipe, errPipe,
                   inPipe, outClosed, outCloses, waits, terms, kills, drain,
                   srTimedOut, rt, errBuf, got, err, payload, timedOut, cancelled,
                   frames, idx>>

\* finally: if process.poll() is None: process.terminate()  (no wait, no kill)
RW_FinallyPoll ==
    /\ op = "RW" /\ pc = "rw_poll"
    /\ IF proc = "running"
       THEN terms' = terms + 1 /\ sigterm' = TRUE /\ reaped' = reaped
       ELSE reaped' = TRUE /\ UNCHANGED <<terms, sigterm>>
    /\ pc' = "done"
    /\ UNCHANGED <<opsVars, op, engineVars, ignoresTerm, outPipe, errPipe, inPipe, outClosed,
                   errClosed, inClosed, outCloses, errCloses, inCloses, waits, kills,
                   drain, srTimedOut, rt, errBuf, got, err, payload, timedOut,
                   cancelled, frames, idx>>

RW_write_frames ==
    \/ RW_Spawn
    \/ RW_Write
    \/ RW_CloseStdin
    \/ RW_Wait
    \/ RW_FinallyClose
    \/ RW_FinallyPoll

\* ------- quackvideo.synthetic: AudioGenerator.generate, VideoGenerator.generate
\* Len(frames) is the number of units the generator produces; frames[i] is
\* FALSE when producing unit i raises
\* ffmpeg.input("pipe:", ...).output(...).run_async(pipe_stdin=True), outside
\* the try block; stderr is not piped
SG_Spawn ==
    /\ op = "SG" /\ pc = "sg_spawn"
    /\ \/ /\ proc' = "running"
          /\ eop' \in SpawnChoices
          /\ pc' = "sg_write"
          /\ err' = err
       \/ /\ err' = "OSError"
          /\ pc' = "done"
          /\ UNCHANGED <<proc, eop>>
    /\ UNCHANGED <<opsVars, op, exitCode, reaped, ignoresTerm, sigterm, framesWritten,
                   shortWritten, outEOF, errWritten, outPipe, errPipe, inPipe, outClosed,
                   errClosed, inClosed, countVars, drain, srTimedOut, rt, errBuf,
                   got, payload, timedOut, cancelled, frames, idx>>

\* for samples in self._generate_samples(): process.stdin.write(...); on any
\* exception: if process.poll() is None: process.kill(); raise
SG_Write ==
    /\ op = "SG" /\ pc = "sg_write" /\ idx <= Len(frames)
    /\ \/ /\ ~frames[idx]
          /\ err' = "ValueError"
          /\ pc' = "done"
          /\ IF proc = "running"
             THEN /\ kills' = kills + 1
                  /\ proc' = "exited"
                  /\ exitCode' = SignalRc(9)
                  /\ reaped' = reaped
             ELSE /\ reaped' = TRUE
                  /\ UNCHANGED <<kills, proc, exitCode>>
          /\ UNCHANGED <<inPipe, idx>>
       \/ /\ frames[idx] /\ proc = "exited"
          /\ err' = "BrokenPipeError"
          /\ pc' = "done"
          /\ reaped' = TRUE
          /\ UNCHANGED <<inPipe, idx, kills, proc, exitCode>>
       \/ /\ frames[idx] /\ proc = "running" /\ Len(inPipe) < InCap
          /\ inPipe' = Append(inPipe, idx)
          /\ idx' = idx + 1
          /\ UNCHANGED <<err, pc, reaped, kills, proc, exitCode>>
    /\ UNCHANGED <<opsVars, op, eop, framesWritten, shortWritten, outEOF, errWritten, ignoresTerm,
                   sigterm, outPipe, errPipe, outClosed, errClosed, inClosed,
                   outCloses, errCloses, inCloses, waits, terms, drain, srTimedOut,
                   rt, errBuf, got, payload, timedOut, cancelled, frames>>

\* process.stdin.close() after the last unit
SG_CloseStdin ==
    /\ op = "SG" /\ pc = "sg_write" /\ idx > Len(frames)
    /\ inClosed' = TRUE
    /\ inCloses' = inCloses + 1
    /\ pc' = "sg_wait"
    /\ UNCHANGED <<opsVars, op, engineVars, reaped, ignoresTerm, sigterm, outPipe, errPipe,
                   inPipe, outClosed, errClosed, outCloses, errCloses, waits, terms,
                   kills, drain, srTimedOut, rt, errBuf, got, err, payload, timedOut,
                   cancelled, frames, idx>>

\* process.wait() without a timeout; return output_path whatever the returncode
SG_Wait ==
    /\ op = "SG" /\ pc = "sg_wait"
    /\ proc = "exited"
    /\ waits' = waits + 1
    /\ reaped' = TRUE
    /\ pc' = "done"
    /\ UNCHANGED <<opsVars, op, engineVars, ignoresTerm, sigterm, outPipe, errPipe, inPipe,
                   outClosed, errClosed, inClosed, outCloses, errCloses, inCloses,
                   terms, kills, drain, srTimedOut, rt, errBuf, got, err, payload,
                   timedOut, cancelled, frames, idx>>

SG_generate ==
    \/ SG_Spawn
    \/ SG_Write
    \/ SG_CloseStdin
    \/ SG_Wait

\* ------------- quackvideo.core.operations.frames: FrameExtractor.extract_frames
\* ffmpeg.run_async(stream, pipe_stderr=True, overwrite_output=True)
FX_Spawn ==
    /\ op = "FX" /\ pc = "fx_spawn"
    /\ \/ /\ proc' = "running"
          /\ eop' \in SpawnChoices
          /\ pc' = "fx_poll"
          /\ err' = err
       \/ /\ err' = "OSError"
          /\ pc' = "done"
          /\ UNCHANGED <<proc, eop>>
    /\ UNCHANGED <<opsVars, op, exitCode, reaped, ignoresTerm, sigterm, framesWritten,
                   shortWritten, outEOF, errWritten, outPipe, errPipe, inPipe, outClosed,
                   errClosed, inClosed, countVars, drain, srTimedOut, rt, errBuf,
                   got, payload, timedOut, cancelled, frames, idx>>

\* `while process.poll() is None:` spins (no state change) until the engine has
\* exited; then a non-zero returncode raises FFmpegOperationError
FX_Poll ==
    /\ op = "FX" /\ pc = "fx_poll"
    /\ proc = "exited"
    /\ reaped' = TRUE
    /\ err' = IF exitCode # 0 THEN "FFmpegOperationError" ELSE err
    /\ pc' = "done"
    /\ UNCHANGED <<opsVars, op, engineVars, ignoresTerm, sigterm, outPipe, errPipe, inPipe,
                   outClosed, errClosed, inClosed, countVars, drain, srTimedOut, rt,
                   errBuf, got, payload, timedOut, cancelled, frames, idx>>

FX_extract_frames ==
    \/ FX_Spawn
    \/ FX_Poll

Next ==
    \/ Engine
    \/ stream_reader
    \/ RX_extract_frames
    \/ QX_extract_frames
    \/ QW_write_frames
    \/ RW_write_frames
    \/ SG_generate
    \/ FX_extract_frames

Spec == Init /\ [][Next]_vars

\* every thread and process that can take a step eventually takes one
FairSpec == Spec /\ WF_vars(Next)

\* ---------- quackvideo.core.operations.base: FFmpegOperation.execute_with_retry
\*   OP  a FFmpegOperation subclass whose two hooks either return or raise
\*   AP  quackvideo.core.operations.audio AudioProcessor (convert_audio,
\*       extract_audio, mix_audio all end in execute_with_retry)
MaxRetries == 3     \* largest config.retries explored
RetryOps == {"OP", "AP"}

\* stderr captured from a failed engine run
StderrTexts == {"", "e1", "e2"}

\* e.stderr.decode() if e.stderr else None
DecodeStderr(text) == IF text = "" THEN None ELSE Some(text)

\* str(e) of an exception, and the f-string message of a failed attempt
Message(text) == [text |-> text, attempt |-> 0, of |-> 0]
AttemptMessage(k, n) ==
    [text |-> "FFmpeg operation failed on attempt", attempt |-> k, of |-> n]

Exception(type, text) ==
    [type |-> type, message |-> Message(text), ffmpeg_error |-> None]
FFmpegOperationError(message, ffmpeg_error) ==
    [type |-> "FFmpegOperationError", message |-> message,
     ffmpeg_error |-> ffmpeg_error]

\* metadata_file.write_text(metadata.model_dump_json(indent=2))
create_metadata_file(m) ==
    /\ ledger' = Some(m)
    /\ ledgerWrites' = ledgerWrites + 1

\* self._build_ffmpeg_stream(input_path): AudioProcessor's override has a
\* second required parameter (operation_type), so the one-argument call made
\* by execute_with_retry raises TypeError; any other subclass returns a
\* stream or raises
BuildOutcomes(o) == IF o = "AP" THEN {"TypeError"} ELSE {"stream", "Exception"}

\* self._process_output(result, metadata): AudioProcessor raises
\* FFmpegOperationError("Output file not found") when metadata.last_processed
\* is None, and otherwise builds AudioOperationResult(operation_type=
\* metadata.status), which is not an AudioOperationType; any other subclass
\* returns a result or raises
ProcessOutcomes(o, m) ==
    IF o = "AP"
    THEN IF m.last_processed = None THEN {"Output file not found"}
                                    ELSE {"ValidationError"}
    ELSE {"result", "Exception"}

RetryInit ==
    /\ op \in RetryOps
    /\ pc = "ewr_begin"
    /\ PipeIdle
    /\ CallIdle
    /\ retries \in 0..MaxRetries
    /\ input \in {"ok", "missing", "badformat"}
    /\ video = [units |-> 0, nb_frames |-> None]

\* self._validate_input_file(input_path, media_type); metadata =
\* ProcessingMetadata(); self._create_metadata_file(metadata); last_error = None
\* (the OutputMetadata built next is a local that nothing reads).
\* For an input that exists the validation reads
\* self.config.compatible_formats: AudioProcessor's config is an AudioConfig,
\* which has no such field, so the read raises AttributeError
EWR_Begin ==
    /\ op \in RetryOps /\ pc = "ewr_begin"
    /\ \/ /\ input = "missing"
          /\ raised' = Some(Exception("FileNotFoundError", "Input file not found"))
          /\ pc' = "done"
          /\ UNCHANGED <<metadata, ledger, ledgerWrites>>
       \/ /\ input # "missing" /\ op = "AP"
          /\ raised' = Some(Exception("AttributeError", "compatible_formats"))
          /\ pc' = "done"
          /\ UNCHANGED <<metadata, ledger, ledgerWrites>>
       \/ /\ input = "badformat" /\ op # "AP"
          /\ raised' = Some(Exception("ValueError", "Unsupported file format"))
          /\ pc' = "done"
          /\ UNCHANGED <<metadata, ledger, ledgerWrites>>
       \/ /\ input = "ok" /\ op # "AP"
          /\ metadata' = Some(ProcessingMetadata)
          /\ create_metadata_file(ProcessingMetadata)
          /\ pc' = "ewr_loop"
          /\ raised' = raised
    /\ UNCHANGED <<op, pipeVars, reqVars, frameVars, retries, input, attempt, runs, sleeps,
                   stderrs, last_error, result>>

\* mutant of EWR_Build: `except Exception` continues with the next attempt
\* instead of breaking
EWR_Build_Continue ==
    /\ op \in RetryOps /\ pc = "ewr_loop"
    /\ attempt < retries
    /\ \E b \in BuildOutcomes(op) :
          IF b = "stream"
          THEN /\ pc' = "ewr_run"
               /\ UNCHANGED <<last_error, attempt>>
          ELSE /\ last_error' = Some(FFmpegOperationError(Message(b), None))
               /\ attempt' = attempt + 1
               /\ pc' = "ewr_loop"
    /\ UNCHANGED <<op, pipeVars, reqVars, frameVars, retries, input, runs, sleeps,
                   stderrs, metadata, ledger, ledgerWrites, raised, result>>

\* for attempt in range(self.config.retries): stream =
\* self._build_ffmpeg_stream(input_path); `except Exception` turns an
\* exception into last_error = FFmpegOperationError(str(e)) and breaks
EWR_Build ==
    /\ op \in RetryOps /\ pc = "ewr_loop"
    /\ attempt < retries
    /\ \E b \in BuildOutcomes(op) :
          IF b = "stream"
          THEN /\ pc' = "ewr_run"
               /\ last_error' = last_error
          ELSE /\ last_error' = Some(FFmpegOperationError(Message(b), None))
               /\ pc' = "ewr_failed"
    /\ UNCHANGED <<op, pipeVars, reqVars, frameVars, retries, input, attempt, runs, sleeps,
                   stderrs, metadata, ledger, ledgerWrites, raised, result>>

\* mutant of EWR_Run: last_error keeps the error of the first failed attempt
EWR_Run_KeepFirst ==
    /\ op \in RetryOps /\ pc = "ewr_run"
    /\ runs' = runs + 1
    /\ \/ /\ pc' = "ewr_complete"
          /\ UNCHANGED <<stderrs, last_error, attempt>>
       \/ \E text \in StderrTexts :
          /\ stderrs' = Append(stderrs, text)
          /\ last_error' = IF last_error # None THEN last_error
                           ELSE Some(FFmpegOperationError(
                                       AttemptMessage(attempt + 1, retries),
                                       DecodeStderr(text)))
          /\ IF attempt < retries - 1
             THEN pc' = "ewr_sleep" /\ attempt' = attempt
             ELSE pc' = "ewr_loop" /\ attempt' = attempt + 1
    /\ UNCHANGED <<op, pipeVars, reqVars, frameVars, retries, input, sleeps, metadata,
                   ledger, ledgerWrites, raised, result>>

\* ffmpeg.run(stream, capture_stdout=True, capture_stderr=True, ...): it
\* returns, or raises ffmpeg.Error; `except ffmpeg.Error` records last_error
\* and, unless this was the last attempt, goes on to sleep
EWR_Run ==
    /\ op \in RetryOps /\ pc = "ewr_run"
    /\ runs' = runs + 1
    /\ \/ /\ pc' = "ewr_complete"
          /\ UNCHANGED <<stderrs, last_error, attempt>>
       \/ \E text \in StderrTexts :
          /\ stderrs' = Append(stderrs, text)
          /\ last_error' = Some(FFmpegOperationError(
                                  AttemptMessage(attempt + 1, retries),
                                  DecodeStderr(text)))
          /\ IF attempt < retries - 1
             THEN pc' = "ewr_sleep" /\ attempt' = attempt
             ELSE pc' = "ewr_loop" /\ attempt' = attempt + 1
    /\ UNCHANGED <<op, pipeVars, reqVars, frameVars, retries, input, sleeps, metadata,
                   ledger, ledgerWrites, raised, result>>

\* mutant of EWR_Sleep: the loop continues without the delay
EWR_Sleep_NoDelay ==
    /\ op \in RetryOps /\ pc = "ewr_sleep"
    /\ attempt' = attempt + 1
    /\ pc' = "ewr_loop"
    /\ UNCHANGED <<op, pipeVars, reqVars, frameVars, retries, input, runs, sleeps, stderrs,
                   metadata, ledger, ledgerWrites, last_error, raised, result>>

\* time.sleep(self.config.retry_delay); continue
EWR_Sleep ==
    /\ op \in RetryOps /\ pc = "ewr_sleep"
    /\ sleeps' = sleeps + 1
    /\ attempt' = attempt + 1
    /\ pc' = "ewr_loop"
    /\ UNCHANGED <<op, pipeVars, reqVars, frameVars, retries, input, runs, stderrs,
                   metadata, ledger, ledgerWrites, last_error, raised, result>>

\* metadata.status = "completed"; self._create_metadata_file(metadata);
\* return self._process_output(result, metadata) -- still inside the try, so
\* an exception of the hook is caught by `except Exception` and breaks
EWR_Complete ==
    /\ op \in RetryOps /\ pc = "ewr_complete"
    /\ LET m == [Value(metadata) EXCEPT !.status = "completed"]
       IN /\ metadata' = Some(m)
          /\ create_metadata_file(m)
          /\ \E r \in ProcessOutcomes(op, m) :
                IF r = "result"
                THEN /\ result' = Some([output |-> r])
                     /\ pc' = "done"
                     /\ last_error' = last_error
                ELSE /\ last_error' = Some(FFmpegOperationError(Message(r), None))
                     /\ pc' = "ewr_failed"
                     /\ result' = result
    /\ UNCHANGED <<op, pipeVars, reqVars, frameVars, retries, input, attempt, runs, sleeps,
                   stderrs, raised>>

\* after the loop (exhausted or left by break): metadata.status = "failed";
\* self._create_metadata_file(metadata); raise last_error or
\* FFmpegOperationError("Operation failed with no specific error")
EWR_Failed ==
    /\ op \in RetryOps
    /\ \/ pc = "ewr_failed"
       \/ pc = "ewr_loop" /\ attempt >= retries
    /\ LET m == [Value(metadata) EXCEPT !.status = "failed"]
       IN /\ metadata' = Some(m)
          /\ create_metadata_file(m)
    /\ raised' = IF last_error # None THEN last_error
                 ELSE Some(FFmpegOperationError(
                             Message("Operation failed with no specific error"),
                             None))
    /\ pc' = "done"
    /\ UNCHANGED <<op, pipeVars, reqVars, frameVars, retries, input, attempt, runs, sleeps,
                   stderrs, last_error, result>>

execute_with_retry ==
    \/ EWR_Begin
    \/ EWR_Build
    \/ EWR_Run
    \/ EWR_Sleep
    \/ EWR_Complete
    \/ EWR_Failed

RetrySpec == RetryInit /\ [][execute_with_retry]_vars

\* --------------- quackvideo.core.operations.frames: FrameExtractor (file level)
\* One FrameExtractor and its output directory; the caller invokes
\* extract_frames repeatedly and may delete or overwrite frame files between
\* the calls.  Unit frame_%04d.<format> number n
\* is the integer n; the frame data the engine produces for unit n is the
\* integer n (the engine is deterministic), any other file content is below.
MaxUnits == 2       \* most units the video yields at config.fps

Names == 1..MaxUnits

\* content of a file that is not the engine's output, and of one that cannot
\* be opened for reading
IsCorrupt(c) == c = 0
Readable(c) == c >= 0
Damage == {c \in -1..0 : IsCorrupt(c) \/ ~Readable(c)}

\* _calculate_frame_hash: SHA-256 of the file content (collision-free here)
calculate_frame_hash(c) == [sha256 |-> c]

Remove(dir, n) == [x \in DOMAIN dir \ {n} |-> dir[x]]

\* the loop of _verify_existing_frames over the globbed files: a file whose
\* hash equals the stored one is kept and reported; any other is unlinked,
\* as is one whose hashing raised
RECURSIVE VerifyLoop(_, _, _, _)
VerifyLoop(existing_frames, dir, frame_integrity, valid_frames) ==
    IF existing_frames = {} THEN [valid_frames |-> valid_frames, dir |-> dir]
    ELSE LET n == CHOOSE x \in existing_frames : TRUE
             rest == existing_frames \ {n}
         IN IF ~Readable(dir[n])
            THEN VerifyLoop(rest, Remove(dir, n), frame_integrity, valid_frames)
            ELSE LET current_hash == calculate_frame_hash(dir[n])
                 IN IF n \in DOMAIN frame_integrity
                       /\ current_hash = frame_integrity[n]
                    THEN VerifyLoop(rest, dir, frame_integrity,
                                    valid_frames @@ (n :> current_hash))
                    ELSE VerifyLoop(rest, Remove(dir, n), frame_integrity,
                                    valid_frames)

verify_existing_frames(dir, m) ==
    IF DOMAIN dir = {} THEN [valid_frames |-> <<>>, dir |-> dir]
    ELSE VerifyLoop(DOMAIN dir, dir, m.frame_integrity, <<>>)

\* frame_integrity maps a caller can pass: per unit no entry, the hash of the
\* engine's output for that unit, or the hash of other content
IntegrityMaps ==
    UNION {[S -> {calculate_frame_hash(c) : c \in 0..MaxUnits}] : S \in SUBSET Names}

\* stems of the videos a caller extracts from; a name is the sequence of its
\* characters
Stems == {<<"a", "b">>, <<"a", " ", "b">>}

\* self._output_dir.name.replace(" ", "_")
replace(name) == [i \in DOMAIN name |-> IF name[i] = " " THEN "_" ELSE name[i]]

\* the caller is between two calls on the extractor
CallerIdle == pc \in {"fe_idle", "done"}

FrameInit ==
    /\ op = "FE"
    /\ pc = "fe_idle"
    /\ PipeIdle
    /\ CallIdle
    /\ retries \in 1..MaxRetries
    /\ input \in {"ok", "missing", "corrupt"}
    /\ video \in [units : 1..MaxUnits, nb_frames : {Some(n) : n \in 0..MaxUnits},
                  stem : Stems]

\* extract_frames(video_path, resume): self._output_dir =
\* self._create_output_directory(video_path), which is episode_dir / "frames"
\* / video_path.stem, made with exist_ok=True.  The extractor of a call is
\* built from the caller's config on the same episode directory: at the fps
\* of that config the video yields any number of units
FE_Call ==
    /\ op = "FE" /\ CallerIdle
    /\ resume' \in BOOLEAN
    /\ \E units \in 1..MaxUnits : video' = [video EXCEPT !.units = units]
    /\ runs' = 0 /\ written' = {} /\ raised' = None /\ result' = None
    /\ IF video'.units # video.units
       THEN original' = None /\ deleted' = {}
       ELSE IF pc = "done" /\ result # None
       THEN original' = Some(Value(result).frame_files) /\ deleted' = {}
       ELSE UNCHANGED <<original, deleted>>
    /\ pc' = "fe_build"
    /\ UNCHANGED <<op, pipeVars, reqVars, retries, input, attempt, sleeps, stderrs, metadata,
                   ledger, ledgerWrites, last_error, outdir, totalFrames>>

\* stream = self._build_ffmpeg_stream(video_path): FileNotFoundError for a
\* missing input; ffmpeg.probe raises ffmpeg.Error for an input it cannot
\* read (re-raised as it is); else self._total_frames is set from the probe.
\* Then, for a directory name with a space, self._output_dir (which exists,
\* and is empty) is renamed to the name with "_" for " " and
\* self._output_dir is set to that path: os.rename onto a directory that is
\* not empty raises OSError.  outdir is the directory the engine writes to
FE_Build ==
    /\ op = "FE" /\ pc = "fe_build"
    /\ \/ /\ input = "missing"
          /\ raised' = Some(Exception("FileNotFoundError", "Input file not found"))
          /\ pc' = "done"
          /\ UNCHANGED totalFrames
       \/ /\ input = "corrupt"
          /\ raised' = Some(Exception("ffmpeg.Error", "ffprobe error"))
          /\ pc' = "done"
          /\ UNCHANGED totalFrames
       \/ /\ input = "ok"
          /\ totalFrames' = video.nb_frames
          /\ IF replace(video.stem) # video.stem /\ DOMAIN outdir # {}
             THEN /\ raised' = Some(Exception("OSError", "Directory not empty"))
                  /\ pc' = "done"
             ELSE /\ pc' = "fe_run"
                  /\ UNCHANGED raised
    /\ original' = IF pc' = "done" THEN None ELSE original
    /\ UNCHANGED <<op, pipeVars, reqVars, retries, input, attempt, runs, sleeps, stderrs,
                   metadata, ledger, ledgerWrites, last_error, result, outdir,
                   video, resume, written, deleted>>

\* the directory after the engine (started with -y) has written units 1..k
EngineWrites(dir, k) ==
    [n \in DOMAIN dir \cup 1..k |-> IF n \in 1..k THEN n ELSE dir[n]]

\* ffmpeg.run_async(stream, pipe_stderr=True, overwrite_output=True) and the
\* poll loop: the engine writes every unit and exits with 0; or it exits with
\* a non-zero status after k units and FFmpegOperationError is raised; or the
\* caller is interrupted in the loop after k units (KeyboardInterrupt passes
\* `except Exception`)
FE_Run ==
    /\ op = "FE" /\ pc = "fe_run"
    /\ runs' = runs + 1
    /\ \/ /\ outdir' = EngineWrites(outdir, video.units)
          /\ written' = 1..video.units
          /\ pc' = "fe_hash"
          /\ UNCHANGED <<raised, original>>
       \/ \E k \in 0..(video.units - 1) :
          /\ outdir' = EngineWrites(outdir, k)
          /\ written' = 1..k
          /\ raised' = Some(FFmpegOperationError(
                              Message("FFmpeg process failed with return code"),
                              None))
          /\ original' = None
          /\ pc' = "done"
       \/ \E k \in 0..video.units :
          /\ outdir' = EngineWrites(outdir, k)
          /\ written' = 1..k
          /\ raised' = Some(Exception("KeyboardInterrupt", ""))
          /\ original' = None
          /\ pc' = "done"
    /\ UNCHANGED <<op, pipeVars, reqVars, retries, input, attempt, sleeps, stderrs, metadata,
                   ledger, ledgerWrites, last_error, result, totalFrames, video,
                   resume, deleted>>

\* frame_files[frame_path.name] = self._calculate_frame_hash(frame_path) for
\* every frame_* file in the directory; return FrameExtractionResult(
\* total_frames=len(frame_files), output_directory=self._output_dir,
\* frame_files=frame_files)
FE_Finish ==
    /\ op = "FE" /\ pc = "fe_hash"
    /\ IF \A n \in DOMAIN outdir : Readable(outdir[n])
       THEN LET frame_files == [n \in DOMAIN outdir |-> calculate_frame_hash(outdir[n])]
            IN /\ result' = Some([total_frames |-> Cardinality(DOMAIN frame_files),
                                  output_directory |-> replace(video.stem),
                                  frame_files |-> frame_files])
               /\ UNCHANGED <<raised, original>>
       ELSE /\ raised' = Some(Exception("PermissionError", ""))
            /\ original' = None
            /\ result' = result
    /\ pc' = "done"
    /\ UNCHANGED <<op, pipeVars, reqVars, retries, input, attempt, runs, sleeps, stderrs,
                   metadata, ledger, ledgerWrites, last_error, outdir, totalFrames,
                   video, resume, written, deleted>>

\* between two calls the caller deletes a frame file
Env_Delete ==
    /\ op = "FE" /\ CallerIdle
    /\ \E n \in DOMAIN outdir :
          /\ outdir' = Remove(outdir, n)
          /\ IF pc = "done" /\ result # None
             THEN original' = Some(Value(result).frame_files) /\ deleted' = {n}
             ELSE IF pc = "fe_idle" /\ original # None
                  THEN original' = original /\ deleted' = deleted \cup {n}
                  ELSE original' = None /\ deleted' = {}
    /\ result' = None /\ raised' = None
    /\ pc' = "fe_idle"
    /\ UNCHANGED <<op, pipeVars, reqVars, retries, input, attempt, runs, sleeps, stderrs,
                   metadata, ledger, ledgerWrites, last_error, totalFrames, video,
                   resume, written>>

\* between two calls the caller overwrites a frame file or makes it unreadable
Env_Corrupt ==
    /\ op = "FE" /\ CallerIdle
    /\ \E n \in DOMAIN outdir, c \in Damage :
          outdir' = [outdir EXCEPT ![n] = c]
    /\ original' = None /\ deleted' = {}
    /\ result' = None /\ raised' = None
    /\ pc' = "fe_idle"
    /\ UNCHANGED <<op, pipeVars, reqVars, retries, input, attempt, runs, sleeps, stderrs,
                   metadata, ledger, ledgerWrites, last_error, totalFrames, video,
                   resume, written>>

FrameExtractor ==
    \/ FE_Call
    \/ FE_Build
    \/ FE_Run
    \/ FE_Finish
    \/ Env_Delete
    \/ Env_Corrupt

FrameSpec == FrameInit /\ [][FrameExtractor]_vars

\* ------------------------------- FrameExtractor._verify_existing_frames
\* one call on any output directory with any stored frame_integrity map
Dirs == UNION {[S -> (1..MaxUnits) \cup Damage] : S \in SUBSET Names}

VerifyInit ==
    /\ op = "VF"
    /\ pc = "vf_call"
    /\ PipeIdle
    /\ ReqIdle
    /\ attempt = 0 /\ runs = 0 /\ sleeps = 0 /\ stderrs = <<>>
    /\ ledger = None /\ ledgerWrites = 0 /\ last_error = None
    /\ raised = None /\ result = None
    /\ totalFrames = None /\ resume = FALSE /\ written = {}
    /\ original = None /\ deleted = {}
    /\ retries = 0 /\ input = "ok"
    /\ video = [units |-> 0, nb_frames |-> None]
    /\ outdir \in Dirs
    /\ metadata \in {Some([ProcessingMetadata EXCEPT !.frame_integrity = fi]) :
                        fi \in IntegrityMaps}

\* mutant of FE_Verify: a unit that fails the check is reported as invalid
\* but its file is left in place
FE_Verify_NoUnlink ==
    /\ op = "VF" /\ pc = "vf_call"
    /\ LET v == verify_existing_frames(outdir, Value(metadata))
       IN /\ outdir' = outdir
          /\ result' = Some([valid_frames |-> v.valid_frames])
          /\ deleted' = DOMAIN outdir \ DOMAIN v.dir
    /\ pc' = "fe_verified"
    /\ UNCHANGED <<op, pipeVars, reqVars, retries, input, attempt, runs, sleeps, stderrs,
                   metadata, ledger, ledgerWrites, last_error, raised, totalFrames,
                   video, resume, written, original>>

\* self._verify_existing_frames(output_dir, metadata); the files it unlinked
\* are recorded in `deleted`
FE_Verify ==
    /\ op = "VF" /\ pc = "vf_call"
    /\ LET v == verify_existing_frames(outdir, Value(metadata))
       IN /\ outdir' = v.dir
          /\ result' = Some([valid_frames |-> v.valid_frames])
          /\ deleted' = DOMAIN outdir \ DOMAIN v.dir
    /\ pc' = "fe_verified"
    /\ UNCHANGED <<op, pipeVars, reqVars, retries, input, attempt, runs, sleeps, stderrs,
                   metadata, ledger, ledgerWrites, last_error, raised, totalFrames,
                   video, resume, written, original>>

VerifySpec == VerifyInit /\ [][FE_Verify]_vars

\* ------------------ quackvideo.core.operations.models: ProcessingMetadata
\* one ProcessingMetadata object: construction, field assignments, and the
\* updates FrameExtractor._process_output makes to it
Counts == 0..MaxUnits
MaxWrites == 2      \* most ledger writes explored for one object

MetaInit ==
    /\ op = "PM"
    /\ pc = "pm_idle"
    /\ PipeIdle
    /\ ReqIdle
    /\ attempt = 0 /\ runs = 0 /\ sleeps = 0 /\ stderrs = <<>>
    /\ metadata = None /\ ledger = None /\ ledgerWrites = 0
    /\ last_error = None /\ raised = None /\ result = None
    /\ resume = FALSE /\ written = {} /\ original = None /\ deleted = {}
    /\ retries = 0 /\ input = "ok"
    /\ video = [units |-> 0, nb_frames |-> None]
    /\ outdir \in Dirs
    /\ totalFrames \in {Some(n) : n \in Counts}

\* @model_validator(mode="after") validate_progress
validate_progress(m) ==
    m.total_frames = None \/ m.completed_frames <= Value(m.total_frames)

\* ProcessingMetadata(total_frames=..., completed_frames=...): the model
\* validator runs on construction and raises ValidationError
PM_New ==
    /\ op = "PM"
    /\ \E t \in {None} \cup {Some(n) : n \in Counts}, c \in Counts :
          LET m == [ProcessingMetadata EXCEPT !.total_frames = t,
                                              !.completed_frames = c]
          IN IF validate_progress(m)
             THEN metadata' = Some(m) /\ raised' = None
             ELSE /\ raised' = Some(Exception("ValidationError", "validate_progress"))
                  /\ metadata' = metadata
    /\ UNCHANGED <<op, pc, pipeVars, reqVars, frameVars, retries, input, attempt, runs,
                   sleeps, stderrs, ledger, ledgerWrites, last_error, result>>

\* metadata.total_frames = t / metadata.completed_frames = c: the model sets
\* no validate_assignment, so the attribute is stored without validation
PM_Assign ==
    /\ op = "PM" /\ metadata # None
    /\ \/ \E t \in {None} \cup {Some(n) : n \in Counts} :
             metadata' = Some([Value(metadata) EXCEPT !.total_frames = t])
       \/ \E c \in Counts :
             metadata' = Some([Value(metadata) EXCEPT !.completed_frames = c])
    /\ raised' = None
    /\ UNCHANGED <<op, pc, pipeVars, reqVars, frameVars, retries, input, attempt, runs,
                   sleeps, stderrs, ledger, ledgerWrites, last_error, result>>

Max(S) == CHOOSE x \in S : \A y \in S : y <= x

\* FrameExtractor._process_output(result, metadata): hash the frame files in
\* sorted order into frame_integrity (a file that cannot be read ends the
\* call there); metadata.total_frames = self._total_frames;
\* metadata.completed_frames = len(frame_files); metadata.last_processed =
\* max(frame_files.keys(), default=None); self._create_metadata_file(metadata)
PM_ProcessOutput ==
    /\ op = "PM" /\ metadata # None
    /\ ledgerWrites < MaxWrites
    /\ LET unreadable == {n \in DOMAIN outdir : ~Readable(outdir[n])}
           hashed == {n \in DOMAIN outdir : \A u \in unreadable : n < u}
           frame_files == [n \in hashed |-> calculate_frame_hash(outdir[n])]
           m == Value(metadata)
           frame_integrity == [n \in DOMAIN m.frame_integrity \cup hashed |->
                                 IF n \in hashed THEN frame_files[n]
                                 ELSE m.frame_integrity[n]]
       IN IF unreadable # {}
          THEN /\ metadata' = Some([m EXCEPT !.frame_integrity = frame_integrity])
               /\ raised' = Some(Exception("PermissionError", ""))
               /\ UNCHANGED <<ledger, ledgerWrites, result>>
          ELSE LET done == [m EXCEPT
                              !.frame_integrity = frame_integrity,
                              !.total_frames = totalFrames,
                              !.completed_frames = Cardinality(hashed),
                              !.last_processed =
                                  IF hashed = {} THEN None ELSE Some(Max(hashed))]
               IN /\ metadata' = Some(done)
                  /\ create_metadata_file(done)
                  /\ result' = Some([total_frames |-> Value(totalFrames),
                                     frame_files |-> frame_files])
                  /\ raised' = None
    /\ UNCHANGED <<op, pc, pipeVars, reqVars, frameVars, retries, input, attempt, runs,
                   sleeps, stderrs, last_error>>

MetaNext ==
    \/ PM_New
    \/ PM_Assign
    \/ PM_ProcessOutput

MetaSpec == MetaInit /\ [][MetaNext]_vars

\* --------------------- quackvideo.core.operations.base: the ledger on disk
\* one _create_metadata_file call on an episode directory that may already
\* hold a ledger, at the granularity of the file system: Path.write_text
\* opens the file with mode "w" and writes the text through the file object
Statuses == {"in_progress", "completed", "failed"}
Documents ==
    {[ProcessingMetadata EXCEPT !.status = s, !.completed_frames = c] :
        s \in Statuses, c \in Counts}

\* metadata.model_dump_json(indent=2) as the chunks it is written in
model_dump_json(m) == <<"{", ToString(m.completed_frames), m.status, "}">>

\* what a reader of .metadata.json gets: the document whose JSON text is the
\* file's content (None: the text is not a complete JSON document)
Parse(text) ==
    IF \E m \in Documents : model_dump_json(m) = text
    THEN Some(CHOOSE m \in Documents : model_dump_json(m) = text)
    ELSE None

LedgerInit ==
    /\ op = "MF"
    /\ pc = "mf_call"
    /\ PipeIdle
    /\ attempt = 0 /\ runs = 0 /\ sleeps = 0 /\ stderrs = <<>>
    /\ ledgerWrites = 0 /\ last_error = None /\ raised = None /\ result = None
    /\ outdir = <<>> /\ totalFrames = None /\ resume = FALSE /\ written = {}
    /\ original = None /\ deleted = {}
    /\ retries = 0 /\ input = "ok"
    /\ video = [units |-> 0, nb_frames |-> None]
    /\ request = None /\ cmd = None /\ probes = 0 /\ probed = None
    /\ sequence = None
    /\ ledger \in {None} \cup {Some(m) : m \in Documents}
    /\ file = (IF ledger = None THEN None ELSE Some(model_dump_json(Value(ledger))))
    /\ metadata \in {Some(m) : m \in Documents}

\* write_text: io.open(self, "w") creates the file or truncates it to length 0
MF_Open ==
    /\ op = "MF" /\ pc = "mf_call"
    /\ file' = Some(<<>>)
    /\ pc' = "mf_write"
    /\ UNCHANGED <<op, pipeVars, retryVars, frameVars, request, cmd, probes, probed,
                   sequence>>

\* write_text: f.write(data), flushed to the file one chunk after another
MF_Write ==
    /\ op = "MF" /\ pc = "mf_write"
    /\ LET data == model_dump_json(Value(metadata))
           n    == Len(Value(file))
       IN /\ n < Len(data)
          /\ file' = Some(Append(Value(file), data[n + 1]))
    /\ UNCHANGED <<op, pc, pipeVars, retryVars, frameVars, request, cmd, probes, probed,
                   sequence>>

\* write_text: leaving the `with` block closes the file; the call returns
MF_Close ==
    /\ op = "MF" /\ pc = "mf_write"
    /\ Len(Value(file)) = Len(model_dump_json(Value(metadata)))
    /\ pc' = "done"
    /\ ledger' = metadata
    /\ ledgerWrites' = ledgerWrites + 1
    /\ UNCHANGED <<op, pipeVars, frameVars, reqVars, retries, input, attempt, runs,
                   sleeps, stderrs, metadata, last_error, raised, result>>

\* the process is killed (or the machine stops) inside the call
MF_Interrupt ==
    /\ op = "MF" /\ pc \in {"mf_call", "mf_write"}
    /\ pc' = "mf_killed"
    /\ UNCHANGED <<op, pipeVars, opsVars>>

create_metadata_file_on_disk ==
    \/ MF_Open
    \/ MF_Write
    \/ MF_Close
    \/ MF_Interrupt

LedgerSpec == LedgerInit /\ [][create_metadata_file_on_disk]_vars

\* ------------------- requests: FFmpegCommand, VideoReaderConfig, builders
\* one call chain per behaviour: a request object is constructed by one of
\* the entry points and handed to the command builder of its package
MaxTime == 2                        \* largest time value of a request
\* time values in tenths of a second (exact decimal arithmetic)
Times == {10 * t : t \in -1..MaxTime}
FpsValues == {-1, 0, 30}
Resolutions == {<<640, 480>>, <<0, 480>>}
Opt(S) == {None} \cup {Some(x) : x \in S}

\* the keyword arguments a caller may pass
Arguments ==
    [output_path : Opt({"output.mp4"}), fps : Opt(FpsValues),
     start_time : Opt(Times), end_time : Opt(Times),
     resolution : Opt(Resolutions)]

\* the arguments of a call or request object r as a record of Arguments
ArgsOf(r) ==
    [output_path |-> r.output_path, fps |-> r.fps, start_time |-> r.start_time,
     end_time |-> r.end_time, resolution |-> r.resolution]

\* the request object of class cls built from arguments a
Request(cls, a) ==
    [cls |-> cls, input_path |-> "input.mp4", output_path |-> a.output_path,
     fps |-> a.fps, start_time |-> a.start_time, end_time |-> a.end_time,
     resolution |-> a.resolution]

\* str(x) of a float given in tenths: "1.5" for 15
RECURSIVE StrFloat(_)
StrFloat(x) ==
    IF x < 0 THEN "-" \o StrFloat(-x)
    ELSE ToString(x \div 10) \o "." \o ToString(x % 10)

\* `self.start_time or 0`: None and 0.0 are both falsy
OrZero(o) == IF o = None THEN 0 ELSE Value(o)

\* ",".join(filters)
RECURSIVE Join(_)
Join(s) ==
    IF Len(s) = 0 THEN ""
    ELSE IF Len(s) = 1 THEN s[1]
    ELSE s[1] \o "," \o Join(Tail(s))

\* reelpy FFmpegCommand.build_command
build_command(r) ==
    LET cmd0 == <<"ffmpeg", "-i", r.input_path>>
        cmd1 == IF r.start_time # None
                THEN cmd0 \o <<"-ss", StrFloat(Value(r.start_time))>>
                ELSE cmd0
        duration == OrZero(r.end_time) - OrZero(r.start_time)
        cmd2 == IF r.end_time # None /\ duration > 0
                THEN cmd1 \o <<"-t", StrFloat(duration)>>
                ELSE cmd1
        filters ==
            (IF r.fps # None /\ Value(r.fps) # 0
             THEN <<"fps=" \o ToString(Value(r.fps))>> ELSE <<>>)
            \o
            (IF r.resolution # None
             THEN <<"scale=" \o ToString(Value(r.resolution)[1]) \o ":"
                             \o ToString(Value(r.resolution)[2])>>
             ELSE <<>>)
        cmd3 == IF filters # <<>> THEN cmd2 \o <<"-vf", Join(filters)>> ELSE cmd2
    IN IF r.output_path # None THEN Append(cmd3, Value(r.output_path)) ELSE cmd3

\* quackvideo FFmpegCommand.build_stream: the input followed by the filter
\* chain, written as the engine arguments the stream compiles to
build_stream(r) ==
    LET s0 == <<"-i", r.input_path>>
        s1 == IF r.start_time # None
              THEN Append(s0, "setpts=PTS-" \o StrFloat(Value(r.start_time)) \o "/TB")
              ELSE s0
        s2 == IF r.fps # None
              THEN Append(s1, "fps=" \o ToString(Value(r.fps)) \o ".0")
              ELSE s1
        s3 == IF r.resolution # None
              THEN Append(s2, "scale=" \o ToString(Value(r.resolution)[1]) \o ":"
                                       \o ToString(Value(r.resolution)[2]))
              ELSE s2
    IN IF /\ r.end_time # None /\ r.start_time # None
          /\ Value(r.end_time) - Value(r.start_time) > 0
       THEN s3 \o <<"setpts=PTS-STARTPTS",
                    "trim=duration=" \o
                        StrFloat(Value(r.end_time) - Value(r.start_time))>>
       ELSE s3

\* quackvideo FFmpegCommand field validators: validate_fps, validate_time,
\* validate_resolution
FFmpegCommandValid(a) ==
    /\ a.fps = None \/ Value(a.fps) > 0
    /\ a.start_time = None \/ Value(a.start_time) >= 0
    /\ a.end_time = None \/ Value(a.end_time) >= 0
    /\ a.resolution = None
       \/ (Value(a.resolution)[1] > 0 /\ Value(a.resolution)[2] > 0)

\* the VideoReaderConfig object with fields a and skip_validation = skip
\* (force_fps is read by no code path modelled here)
Config(a, skip) ==
    [cls |-> "VideoReaderConfig", output_path |-> None, fps |-> a.fps,
     start_time |-> a.start_time, end_time |-> a.end_time,
     resolution |-> a.resolution, skip_validation |-> skip]

\* VideoReaderConfig.validate_start_time: max(0.0, v)
validate_start_time(v) ==
    IF v = None THEN v ELSE Some(IF Value(v) < 0 THEN 0 ELSE Value(v))

\* VideoReaderConfig field validators in field order: validate_fps,
\* validate_start_time (clamps, never raises), validate_end_time (reads the
\* validated start_time; skip_validation is a later field and not yet in
\* info.data), validate_resolution
VideoReaderConfigValid(a) ==
    /\ a.fps = None \/ Value(a.fps) > 0
    /\ a.end_time = None
       \/ Value(a.end_time) > OrZero(validate_start_time(a.start_time))
    /\ a.resolution = None
       \/ (Value(a.resolution)[1] > 0 /\ Value(a.resolution)[2] > 0)

\* ------------------------------------------------------------- the probe
\* r_frame_rate values a probe document may carry, split at "/"
\* (None: the key is missing from the stream entry)
Numerals == {"-1", "0", "1", "5", "30"}
RateParts ==
    {<<"30", "1">>, <<"5", "1">>, <<"30", "0">>, <<"0", "0">>, <<"x", "1">>, <<"30">>}

\* int(s): the number, or None where int raises ValueError
ParseInt(s) ==
    IF s \in Numerals THEN Some(CHOOSE n \in -1..30 : ToString(n) = s) ELSE None

\* outcome of a call: the exception it raised, or the value it returned
Raise(type, text) == [raised |-> Some(Exception(type, text)), value |-> None]
Return(v) == [raised |-> None, value |-> Some(v)]

\* fps_num, fps_den = map(int, r_frame_rate.split("/")); fps = fps_num / fps_den
\* (the quotient is kept as the pair it is computed from)
ParseRate(parts) ==
    IF Len(parts) # 2 THEN Raise("ValueError", "unpack")
    ELSE IF ParseInt(parts[1]) = None \/ ParseInt(parts[2]) = None
    THEN Raise("ValueError", "invalid literal for int()")
    ELSE IF Value(ParseInt(parts[2])) = 0
    THEN Raise("ZeroDivisionError", "division by zero")
    ELSE Return([num |-> Value(ParseInt(parts[1])), den |-> Value(ParseInt(parts[2]))])

\* VideoReader._load_metadata: ffprobe with check=True, then the parse;
\* CalledProcessError, JSONDecodeError, KeyError, ValueError and IndexError
\* are re-raised as RuntimeError, any other exception propagates
load_metadata ==
    IF input # "ok" THEN Raise("RuntimeError", "Failed to load video metadata")
    ELSE IF probed = None
    THEN Raise("RuntimeError", "Invalid video metadata format")
    ELSE LET r == ParseRate(Value(probed))
         IN IF r.raised # None /\ Value(r.raised).type = "ValueError"
            THEN Raise("RuntimeError", "Invalid video metadata format")
            ELSE r

\* quackvideo FFmpegWrapper.get_video_info: ffmpeg.probe, then the parse;
\* only ffmpeg.Error is re-raised as FFmpegError
Q_get_video_info ==
    IF input # "ok" THEN Raise("FFmpegError", "Failed to probe video")
    ELSE IF probed = None THEN Raise("KeyError", "r_frame_rate")
    ELSE ParseRate(Value(probed))

\* reelpy FFmpegWrapper.get_video_info: ffprobe for width and height only
R_get_video_info ==
    IF input # "ok" THEN Raise("RuntimeError", "Failed to get video info")
    ELSE Return(<<320, 240>>)

\* ------------------------------------------------ entry points and reader
MaxCalls == 2                       \* most engine runs of one reader session

RequestInit ==
    /\ op = "RQ"
    /\ pc = "rq_idle"
    /\ PipeIdle
    /\ attempt = 0 /\ runs = 0 /\ sleeps = 0 /\ stderrs = <<>>
    /\ metadata = None /\ ledger = None /\ ledgerWrites = 0
    /\ last_error = None /\ raised = None /\ result = None
    /\ outdir = <<>> /\ totalFrames = None /\ resume = FALSE /\ written = {}
    /\ original = None /\ deleted = {}
    /\ retries = 0
    /\ video = [units |-> 0, nb_frames |-> None]
    /\ request = None /\ cmd = None /\ probes = 0 /\ file = None
    /\ sequence = None
    /\ input \in {"ok", "missing", "corrupt"}
    /\ probed \in Opt(RateParts)

\* what every action below leaves alone
SessionFrame ==
    UNCHANGED <<op, pipeVars, frameVars, retries, input, attempt, sleeps, stderrs,
                metadata, ledger, ledgerWrites, last_error, probed, file>>

\* the same for an action that does not step a frame-sequence generator
RequestFrame == SessionFrame /\ UNCHANGED sequence

\* reelpy FFmpegCommand(...): a dataclass, no field is validated
RC_New ==
    /\ op = "RQ" /\ pc = "rq_idle"
    /\ \E a \in Arguments : request' = Some(Request("reelpy.FFmpegCommand", a))
    /\ pc' = "rc_new"
    /\ UNCHANGED <<cmd, probes, runs, raised, result>>
    /\ RequestFrame

\* reelpy FFmpegCommand.build_command()
RC_build_command ==
    /\ op = "RQ" /\ pc = "rc_new"
    /\ cmd' = Some(build_command(Value(request)))
    /\ pc' = "rc_done"
    /\ UNCHANGED <<request, probes, runs, raised, result>>
    /\ RequestFrame

\* quackvideo FFmpegCommand(...): the field validators raise ValidationError
QC_New ==
    /\ op = "RQ" /\ pc = "rq_idle"
    /\ \E a \in Arguments :
          IF FFmpegCommandValid(a)
          THEN /\ request' = Some(Request("quackvideo.FFmpegCommand", a))
               /\ pc' = "qc_new"
               /\ raised' = raised
          ELSE /\ raised' = Some(Exception("ValidationError", "FFmpegCommand"))
               /\ pc' = "done"
               /\ request' = request
    /\ UNCHANGED <<cmd, probes, runs, result>>
    /\ RequestFrame

\* quackvideo FFmpegCommand.build_stream()
QC_build_stream ==
    /\ op = "RQ" /\ pc = "qc_new"
    /\ cmd' = Some(build_stream(Value(request)))
    /\ pc' = "qc_done"
    /\ UNCHANGED <<request, probes, runs, raised, result>>
    /\ RequestFrame

\* VideoReaderConfig(...): start_time is clamped, the other validators raise
\* ValidationError; the class has no output_path
VRC_New ==
    /\ op = "RQ" /\ pc = "rq_idle"
    /\ \E a \in {b \in Arguments : b.output_path = None}, skip \in BOOLEAN :
          IF VideoReaderConfigValid(a)
          THEN /\ request' =
                    Some(Config([a EXCEPT !.start_time = validate_start_time(@)],
                                skip))
               /\ pc' = "vrc_new"
               /\ raised' = raised
          ELSE /\ raised' = Some(Exception("ValidationError", "VideoReaderConfig"))
               /\ pc' = "done"
               /\ request' = request
    /\ UNCHANGED <<cmd, probes, runs, result>>
    /\ RequestFrame

\* the arguments extract_frames appends for raw frames on stdout
PipeArgs == <<"-f", "image2pipe", "-pix_fmt", "rgb24", "-vcodec", "rawvideo", "-">>

\* body of reelpy FFmpegWrapper.extract_frames with arguments a, up to the
\* Popen of the engine, after p probes already made by the calling method:
\* existence check, get_video_info unless a resolution is given,
\* FFmpegCommand(...), build_command(), Popen
R_extract_frames_body(a, skip, p) ==
    IF ~skip /\ input = "missing"
    THEN /\ raised' = Some(Exception("FileNotFoundError", "Video file not found"))
         /\ probes' = probes + p
         /\ UNCHANGED <<request, cmd, runs>>
    ELSE IF a.resolution = None /\ R_get_video_info.raised # None
    THEN /\ raised' = R_get_video_info.raised
         /\ probes' = probes + p + 1
         /\ UNCHANGED <<request, cmd, runs>>
    ELSE LET r == Request("reelpy.FFmpegCommand", [a EXCEPT !.output_path = None])
         IN /\ request' = Some(r)
            /\ cmd' = Some(build_command(r) \o PipeArgs)
            /\ runs' = runs + 1
            /\ probes' = probes + p + (IF a.resolution = None THEN 1 ELSE 0)
            /\ raised' = None

\* body of quackvideo FFmpegWrapper.extract_frames up to run_async:
\* existence check, get_video_info, FFmpegCommand(...), build_stream()
Q_extract_frames_body(a, skip) ==
    IF ~skip /\ input = "missing"
    THEN /\ raised' = Some(Exception("FileNotFoundError", "Video file not found"))
         /\ UNCHANGED <<request, cmd, runs, probes>>
    ELSE IF Q_get_video_info.raised # None
    THEN /\ raised' = Q_get_video_info.raised
         /\ probes' = probes + 1
         /\ UNCHANGED <<request, cmd, runs>>
    ELSE IF ~FFmpegCommandValid(a)
    THEN /\ raised' = Some(Exception("ValidationError", "FFmpegCommand"))
         /\ probes' = probes + 1
         /\ UNCHANGED <<request, cmd, runs>>
    ELSE LET r == Request("quackvideo.FFmpegCommand", [a EXCEPT !.output_path = None])
         IN /\ request' = Some(r)
            /\ cmd' = Some(build_stream(r) \o <<"-f", "rawvideo", "-pix_fmt", "rgb24",
                                               "pipe:", "-y">>)
            /\ runs' = runs + 1
            /\ probes' = probes + 1
            /\ raised' = None

\* FFmpegWrapper.extract_frames(...) of either package is a generator
\* function: the call only returns the generator
Generator(a, skip) == [config |-> Request("extract_frames", a), skip_validation |-> skip]

\* reelpy FFmpegWrapper.extract_frames(video_path, fps, start_time, end_time,
\* resolution, skip_validation=...)
RF_extract_frames ==
    /\ op = "RQ" /\ pc = "rq_idle"
    /\ \E a \in {b \in Arguments : b.output_path = None}, skip \in BOOLEAN :
          result' = Some(Generator(a, skip))
    /\ pc' = "rf_gen"
    /\ UNCHANGED <<request, cmd, probes, runs, raised>>
    /\ RequestFrame

\* mutant of RF_Next: the body runs without its existence check
RF_Next_NoCheck ==
    /\ op = "RQ" /\ pc = "rf_gen"
    /\ R_extract_frames_body(ArgsOf(Value(result).config), TRUE, 0)
    /\ pc' = "rf_run"
    /\ UNCHANGED result
    /\ RequestFrame

\* the first next() on the generator runs the body
RF_Next ==
    /\ op = "RQ" /\ pc = "rf_gen"
    /\ R_extract_frames_body(ArgsOf(Value(result).config),
                             Value(result).skip_validation, 0)
    /\ pc' = "rf_run"
    /\ UNCHANGED result
    /\ RequestFrame

\* quackvideo FFmpegWrapper.extract_frames(...)
QF_extract_frames ==
    /\ op = "RQ" /\ pc = "rq_idle"
    /\ \E a \in {b \in Arguments : b.output_path = None}, skip \in BOOLEAN :
          result' = Some(Generator(a, skip))
    /\ pc' = "qf_gen"
    /\ UNCHANGED <<request, cmd, probes, runs, raised>>
    /\ RequestFrame

\* the first next() on the generator runs the body
QF_Next ==
    /\ op = "RQ" /\ pc = "qf_gen"
    /\ Q_extract_frames_body(ArgsOf(Value(result).config),
                             Value(result).skip_validation)
    /\ pc' = "qf_run"
    /\ UNCHANGED result
    /\ RequestFrame

\* VideoReaderConfig(): every field at its default
DefaultArguments ==
    [output_path |-> None, fps |-> None, start_time |-> None, end_time |-> None,
     resolution |-> None]

\* the reader object: self.config, the skip_validation argument, and
\* self._metadata.fps
Reader(config, skip, fps) == [config |-> config, skip_validation |-> skip, fps |-> fps]

\* VideoReader(video_path, config, skip_validation=...): the config defaults
\* to VideoReaderConfig(skip_validation=skip_validation); existence check;
\* self._metadata = _load_metadata()
VR_New ==
    /\ op = "RQ" /\ pc \in {"rq_idle", "vrc_new"}
    /\ \E skip \in BOOLEAN :
          LET config == IF pc = "vrc_new" THEN Value(request)
                        ELSE Config(DefaultArguments, skip)
              m == load_metadata
          IN /\ request' = Some(config)
             /\ IF ~skip /\ input = "missing"
                THEN /\ raised' = Some(Exception("FileNotFoundError",
                                                 "Video file not found"))
                     /\ pc' = "done"
                     /\ UNCHANGED <<probes, result>>
                ELSE IF m.raised # None
                THEN /\ raised' = m.raised
                     /\ probes' = probes + 1
                     /\ pc' = "done"
                     /\ UNCHANGED result
                ELSE /\ result' = Some(Reader(config, skip, Value(m.value)))
                     /\ probes' = probes + 1
                     /\ pc' = "vr_ready"
                     /\ UNCHANGED raised
    /\ UNCHANGED <<cmd, runs>>
    /\ RequestFrame

\* VideoReader.read_frames() and the first next() on what it returns:
\* FFmpegWrapper.extract_frames of reelpy with the config's fps, times and
\* resolution; skip_validation is not passed on
VR_read_frames ==
    /\ op = "RQ" /\ pc = "vr_ready" /\ runs < MaxCalls /\ sequence = None
    /\ R_extract_frames_body(ArgsOf(Value(result).config), FALSE, 0)
    /\ UNCHANGED <<pc, result>>
    /\ RequestFrame

\* a temporary reader built inside a method: VideoReaderConfig(**a,
\* skip_validation=True), VideoReader(self.video_path, temp_config,
\* skip_validation=True) with its own _load_metadata, then read_frames()
TempReader(a) ==
    IF ~VideoReaderConfigValid(a)
    THEN /\ raised' = Some(Exception("ValidationError", "VideoReaderConfig"))
         /\ UNCHANGED <<request, cmd, runs, probes>>
    ELSE IF load_metadata.raised # None
    THEN /\ raised' = load_metadata.raised
         /\ probes' = probes + 1
         /\ request' = Some(Config([a EXCEPT !.start_time = validate_start_time(@)],
                                    TRUE))
         /\ UNCHANGED <<cmd, runs>>
    ELSE R_extract_frames_body([a EXCEPT !.start_time = validate_start_time(@)],
                               FALSE, 1)

\* VideoReader.extract_frame_at(timestamp): a window of 0.1 s on either side
\* of the timestamp, read through a temporary reader at 25 fps
extract_frame_at(timestamp) ==
    IF timestamp < 0
    THEN /\ raised' = Some(Exception("ValueError", "Timestamp must be non-negative"))
         /\ UNCHANGED <<request, cmd, runs, probes>>
    ELSE TempReader([output_path |-> None, fps |-> Some(25),
                     start_time |-> Some(IF timestamp - 1 < 0 THEN 0 ELSE timestamp - 1),
                     end_time |-> Some(timestamp + 1),
                     resolution |-> Value(result).config.resolution])

VR_extract_frame_at ==
    /\ op = "RQ" /\ pc = "vr_ready" /\ runs < MaxCalls /\ sequence = None
    /\ \E timestamp \in Times : extract_frame_at(timestamp)
    /\ UNCHANGED <<pc, result>>
    /\ RequestFrame

\* VideoReader.extract_frames_range(start_time, end_time) without
\* frame_count, and the first next() on it: a temporary reader over the range
VR_extract_frames_range ==
    /\ op = "RQ" /\ pc = "vr_ready" /\ runs < MaxCalls /\ sequence = None
    /\ \E start_time \in Times, end_time \in Times :
          IF end_time <= start_time
          THEN /\ raised' = Some(Exception("ValueError",
                                           "end_time must be greater than start_time"))
               /\ UNCHANGED <<request, cmd, runs, probes>>
          ELSE TempReader([output_path |-> None, fps |-> None,
                           start_time |-> Some(start_time),
                           end_time |-> Some(end_time),
                           resolution |-> Value(result).config.resolution])
    /\ UNCHANGED <<pc, result>>
    /\ RequestFrame

\* ----------------------------------- VideoReader.extract_frame_sequence
\* a session explores one sequence, asked of a reader that has not run the
\* engine yet and left alone by the other methods until it has ended
FrameCounts == 1..MaxCalls
Directions == {"both", "forward", "backward", "sideways"}

\* frame_duration = 1.0 / self.fps, in tenths of a second
frame_duration(fps) == (10 * fps.den) \div fps.num

\* np.linspace(start, stop, num): num evenly spaced values, both ends included
linspace(start, stop, num) ==
    IF num = 1 THEN <<start>>
    ELSE [i \in 1..num |-> start + ((i - 1) * (stop - start)) \div (num - 1)]

\* the arithmetic above is exact: 1 / fps is a whole number of tenths and so
\* is every step of the linspace (with frame_count = 1 neither is used, the
\* only timestamp is start_time)
Exact(fps, frame_count) ==
    IF frame_count = 1 THEN TRUE
    ELSE /\ (10 * fps.den) % fps.num = 0
         /\ \A i \in 1..frame_count :
               ((i - 1) * frame_count * frame_duration(fps)) % (frame_count - 1) = 0

\* the timestamps extract_frames_range(start_time, end_time, frame_count=
\* frame_count) reads for a "both" or "forward" sequence: start_time is
\* timestamp - (frame_count // 2) * frame_duration or timestamp, end_time is
\* start_time + frame_count * frame_duration (above start_time, so the range
\* is accepted)
sequence_timestamps(a, fps) ==
    LET start_time == IF a.direction = "both"
                      THEN a.timestamp - (a.frame_count \div 2) * frame_duration(fps)
                      ELSE a.timestamp
        end_time == start_time + a.frame_count * frame_duration(fps)
    IN linspace(start_time, end_time, a.frame_count)

\* a generator that ended (by an exception, or by StopIteration when raised
\* is None) and one that is suspended at a yield
Finished(a, yielded, exc) ==
    [asked |-> a, pending |-> <<>>, yielded |-> yielded, state |-> "finished",
     raised |-> exc]
Suspended(a, pending, yielded) ==
    [asked |-> a, pending |-> pending, yielded |-> yielded, state |-> "suspended",
     raised |-> None]

\* one step of `for ts in timestamps: yield float(ts), self.extract_frame_at(ts)`
\* for the generator asked a, with the timestamps ts still to read
ReadNext(a, ts, yielded) ==
    /\ extract_frame_at(ts[1])
    /\ sequence' = Some(IF raised' # None THEN Finished(a, yielded, raised')
                        ELSE Suspended(a, Tail(ts), Append(yielded, ts[1])))

\* VideoReader.extract_frame_sequence(timestamp, frame_count, direction) and
\* the first next() on the generator it returns: ValueError for a direction
\* that is not one of the three; "backward" reads start_time before
\* assigning it; otherwise the first timestamp of the range is read
VR_extract_frame_sequence ==
    /\ op = "RQ" /\ pc = "vr_ready" /\ runs = 0 /\ sequence = None
    /\ \E timestamp \in Times, frame_count \in FrameCounts, direction \in Directions :
          LET a == [timestamp |-> timestamp, frame_count |-> frame_count,
                    direction |-> direction]
              fps == Value(result).fps
          IN /\ Exact(fps, frame_count)
             /\ IF direction \notin {"both", "forward", "backward"}
                THEN /\ raised' = Some(Exception("ValueError",
                                                 "direction must be one of"))
                     /\ sequence' = Some(Finished(a, <<>>, raised'))
                     /\ UNCHANGED <<request, cmd, runs, probes>>
                ELSE IF direction = "backward"
                THEN /\ raised' = Some(Exception("UnboundLocalError", "start_time"))
                     /\ sequence' = Some(Finished(a, <<>>, raised'))
                     /\ UNCHANGED <<request, cmd, runs, probes>>
                ELSE ReadNext(a, sequence_timestamps(a, fps), <<>>)
    /\ UNCHANGED <<pc, result>>
    /\ SessionFrame

\* a further next() on that generator: the next timestamp is read, or the
\* timestamps are used up and the generator ends
VR_sequence_next ==
    /\ op = "RQ" /\ pc = "vr_ready"
    /\ sequence # None /\ Value(sequence).state = "suspended"
    /\ LET g == Value(sequence)
       IN IF g.pending = <<>>
          THEN /\ sequence' = Some(Finished(g.asked, g.yielded, None))
               /\ UNCHANGED <<request, cmd, runs, probes, raised>>
          ELSE /\ runs < MaxCalls
               /\ ReadNext(g.asked, g.pending, g.yielded)
    /\ UNCHANGED <<pc, result>>
    /\ SessionFrame

\* ------------------- FrameExtractionConfig.fps and _build_ffmpeg_stream
\* fps strings a caller may configure, split at "/"
FpsStrings ==
    {<<"1", "5">>, <<"30", "1">>, <<"0", "1">>, <<"-1", "1">>, <<"1", "0">>,
     <<"invalid">>, <<"30">>}
\* durations (seconds) a probe may report
Durations == {1, 5}

\* the string the parts were split from
RECURSIVE Unsplit(_)
Unsplit(parts) ==
    IF Len(parts) = 1 THEN parts[1] ELSE parts[1] \o "/" \o Unsplit(Tail(parts))

\* int(x / y) for y # 0: truncation toward zero
Trunc(x, y) ==
    LET ax == IF x < 0 THEN -x ELSE x
        ay == IF y < 0 THEN -y ELSE y
    IN IF (x < 0) = (y < 0) THEN ax \div ay ELSE -(ax \div ay)

\* frames.py: the total-frame computation for a stream without nb_frames:
\* "/" in fps: num, den = map(int, fps.split("/")); fps = num / den;
\* otherwise fps = float(fps); then int(duration * fps)
total_frames(parts, duration) ==
    IF Len(parts) = 1
    THEN IF ParseInt(parts[1]) = None
         THEN Raise("ValueError", "could not convert string to float")
         ELSE Return(duration * Value(ParseInt(parts[1])))
    ELSE LET r == ParseRate(parts)
         IN IF r.raised # None THEN r
            ELSE Return(Trunc(duration * Value(r.value).num, Value(r.value).den))

\* FrameExtractionConfig(fps=...): fps is a str field without a validator
\* (only quality is validated)
FEC_New ==
    /\ op = "RQ" /\ pc = "rq_idle"
    /\ \E parts \in FpsStrings :
          result' = Some([cls |-> "FrameExtractionConfig", fps |-> parts])
    /\ pc' = "fec_new"
    /\ UNCHANGED <<request, cmd, probes, runs, raised>>
    /\ RequestFrame

\* FrameExtractor._build_ffmpeg_stream for that config: existence check,
\* ffmpeg.probe, self._total_frames from nb_frames or from duration and
\* config.fps, then the output with vf="fps=<config.fps>"
FEC_build_ffmpeg_stream ==
    /\ op = "RQ" /\ pc = "fec_new"
    /\ \E nb_frames \in Opt(0..MaxUnits), duration \in Durations :
          LET fps == Value(result).fps
              t == IF nb_frames # None THEN Return(Value(nb_frames))
                   ELSE total_frames(fps, duration)
          IN IF input = "missing"
             THEN /\ raised' = Some(Exception("FileNotFoundError",
                                              "Input file not found"))
                  /\ UNCHANGED <<probes, totalFrames, cmd>>
             ELSE IF input = "corrupt"
             THEN /\ raised' = Some(Exception("ffmpeg.Error", "ffprobe error"))
                  /\ probes' = probes + 1
                  /\ UNCHANGED <<totalFrames, cmd>>
             ELSE IF t.raised # None
             THEN /\ raised' = t.raised
                  /\ probes' = probes + 1
                  /\ UNCHANGED <<totalFrames, cmd>>
             ELSE /\ totalFrames' = t.value
                  /\ probes' = probes + 1
                  /\ cmd' = Some(<<"-i", "input.mp4", "-vf", "fps=" \o Unsplit(fps),
                                   "-y", "frame_%04d.png">>)
                  /\ raised' = raised
    /\ pc' = "fec_done"
    /\ UNCHANGED <<op, pipeVars, retries, input, attempt, runs, sleeps, stderrs,
                   metadata, ledger, ledgerWrites, last_error, result, outdir, video,
                   resume, written, original, deleted, request, probed, file,
                   sequence>>

\* ---------------------------- quackvideo.synthetic: the sample generators
\* AudioConfig / VideoConfig values a caller may pass: durations in
\* milliseconds, sample rates in Hz, frame rates in frames per second
Milliseconds == {0, 5, 1000, 1005, 2000}
SampleRates == {100, 200}
FrameRates == {1, 25}
AudioPatterns ==
    {"sine", "white_noise", "frequency_sweep", "chirp", "pure_tone", "multi_tone"}
VideoPatterns == {"color_bars", "gradient", "checkerboard", "moving_box", "pulse"}

\* for i in range(0, total_samples, chunk_size): the length of
\* stereo_signal[i : i + chunk_size], which is min(chunk_size, total_samples - i)
\* as _generate_white_noise computes it
RECURSIVE Chunks(_, _)
Chunks(total_samples, chunk_size) ==
    IF total_samples <= 0 THEN <<>>
    ELSE <<IF total_samples < chunk_size THEN total_samples ELSE chunk_size>>
         \o Chunks(total_samples - chunk_size, chunk_size)

\* _apply_envelope(samples) on a chunk of `size` sample frames:
\* attack_samples = release_samples = int(0.01 * sample_rate);
\* samples[:attack_samples] *= attack[:, np.newaxis] multiplies a slice of
\* min(size, attack_samples) rows in place by attack_samples rows, and
\* samples[-release_samples:] (the whole chunk when release_samples is 0) by
\* release_samples rows: numpy raises ValueError when the row counts differ
\* and the envelope has not exactly one row
apply_envelope_raises(size, sample_rate) ==
    LET attack_samples == sample_rate \div 100
    IN IF attack_samples = 0 THEN size > 0
       ELSE attack_samples # 1 /\ size < attack_samples

\* the chunks list(self._generate_samples()) receives, as their lengths, and
\* the exception that ended the generator: total_samples = int(duration *
\* sample_rate), chunks of sample_rate sample frames; _generate_chirp,
\* _generate_pure_tone and _generate_multi_tone pass each chunk through
\* _apply_envelope before they yield it
generate_samples(config) ==
    LET total_samples == Trunc(config.duration * config.sample_rate, 1000)
        chunks == Chunks(total_samples, config.sample_rate)
        failing == {i \in 1..Len(chunks) :
                       /\ config.pattern \in {"chirp", "pure_tone", "multi_tone"}
                       /\ apply_envelope_raises(chunks[i], config.sample_rate)}
        first == CHOOSE i \in failing : \A j \in failing : i <= j
    IN IF failing = {} THEN [yielded |-> chunks, raised |-> None]
       ELSE [yielded |-> SubSeq(chunks, 1, first - 1),
             raised |-> Some(Exception("ValueError",
                                       "operands could not be broadcast together"))]

\* the frames list(self._generate_frames()) receives, as their frame_idx:
\* total_frames = int(duration * fps), and every pattern yields one frame for
\* each frame_idx in range(total_frames)
generate_frames(config) ==
    [i \in 1..Trunc(config.duration * config.fps, 1000) |-> i - 1]

\* AudioGenerator(config).generate: for samples in self._generate_samples():
\* process.stdin.write(samples.tobytes()); result is what was written
AG_generate_samples ==
    /\ op = "RQ" /\ pc = "rq_idle"
    /\ \E pattern \in AudioPatterns, duration \in Milliseconds,
          sample_rate \in SampleRates :
          LET config == [cls |-> "AudioConfig", pattern |-> pattern,
                         duration |-> duration, sample_rate |-> sample_rate]
              g == generate_samples(config)
          IN /\ request' = Some(config)
             /\ result' = Some(g.yielded)
             /\ raised' = g.raised
    /\ pc' = "ag_done"
    /\ UNCHANGED <<cmd, probes, runs>>
    /\ RequestFrame

\* VideoGenerator(config).generate: for frame in self._generate_frames():
\* process.stdin.write(frame.tobytes()); result is what was written
VG_generate_frames ==
    /\ op = "RQ" /\ pc = "rq_idle"
    /\ \E pattern \in VideoPatterns, duration \in Milliseconds, fps \in FrameRates :
          LET config == [cls |-> "VideoConfig", pattern |-> pattern,
                         duration |-> duration, fps |-> fps]
          IN /\ request' = Some(config)
             /\ result' = Some(generate_frames(config))
    /\ pc' = "vg_done"
    /\ UNCHANGED <<cmd, probes, runs, raised>>
    /\ RequestFrame

Requests ==
    \/ FEC_New
    \/ FEC_build_ffmpeg_stream
    \/ RC_New
    \/ RC_build_command
    \/ QC_New
    \/ QC_build_stream
    \/ VRC_New
    \/ VR_New
    \/ VR_read_frames
    \/ VR_extract_frame_at
    \/ VR_extract_frames_range
    \/ VR_extract_frame_sequence
    \/ VR_sequence_next
    \/ RF_extract_frames
    \/ RF_Next
    \/ QF_extract_frames
    \/ QF_Next
    \/ AG_generate_samples
    \/ VG_generate_frames

RequestSpec == RequestInit /\ [][Requests]_vars

\* ------------------------------------------ the encoder's output file
\* frames the engine has taken from stdin and encoded into output_path
Consumed == idx - 1 - Len(inPipe)

\* the file at output_path, which only the engine writes (started with -y) and
\* no code removes: "complete" once the engine has encoded every frame of the
\* call and exited with 0, "partial" while it holds some but not all of that,
\* "absent" as long as nothing was encoded
OutputFile ==
    IF proc = "none" \/ Consumed = 0 THEN "absent"
    ELSE IF proc = "exited" /\ exitCode = 0 /\ Consumed = Len(frames) THEN "complete"
    ELSE "partial"

\* =================================================================== claims
Range(q) == {q[i] : i \in 1..Len(q)}
Spawned == proc # "none"
Done == pc = "done"

\* C1: decode (both extract_frames variants): once the engine was spawned, when
\* the frame iterator has finished or raised, stdout and stderr are closed and
\* the engine is no longer running.
C1_DecodeTeardown ==
    (op \in DecodeOps /\ Done /\ Spawned) =>
        (outClosed /\ errClosed /\ proc = "exited")

\* C1 witness: a read timed out, the engine ignored SIGTERM and was killed.
C1_Witness ==
    /\ op = "RX" /\ Done /\ timedOut /\ kills = 1
    /\ outClosed /\ errClosed /\ proc = "exited"

\* C2 (as claimed): after every finished extract_frames run with a spawned
\* engine, stdout.close(), stderr.close() and process.wait() have each been
\* called exactly once.
C2_TeardownExactlyOnce ==
    (op \in DecodeOps /\ Done /\ Spawned) =>
        (outCloses = 1 /\ errCloses = 1 /\ waits = 1)

\* C3 (as claimed): encode: after every finished run with a spawned engine,
\* stdin and (when piped) stderr are closed and the engine has exited and was
\* reaped, or was killed.
C3_EncodeTeardown ==
    (op \in EncodeOps /\ Done /\ Spawned) =>
        /\ inClosed
        /\ ErrPiped => errClosed
        /\ proc = "exited"
        /\ reaped \/ exitCode = SignalRc(9)

\* C4 (as claimed): extract_frames and write_frames send SIGTERM at most once
\* and SIGKILL at most once, SIGKILL only after SIGTERM, and once teardown has
\* run the engine is not alive.
C4_Escalation ==
    (op \in {"RX", "QX", "QW", "RW"}) =>
        /\ terms <= 1
        /\ kills <= 1
        /\ kills = 1 => terms = 1
        /\ (Done /\ Spawned) => proc = "exited"

\* C5 (as claimed): a run of extract_frames in which a wait or read bounded by
\* `timeout` expired raises FFmpegTimeoutError, and no run without such a
\* timeout (in particular one that fails on a non-zero exit code) does.
C5_TimeoutKind ==
    (op \in DecodeOps /\ Done) =>
        (timedOut <=> err = "FFmpegTimeoutError")

\* C6: when the consumer closes the frame iterator after k frames, teardown
\* has run by the time close returns: both pipes are closed, the engine is not
\* running, and it was killed only after a SIGTERM it survived.
C6_CancelTeardown ==
    (op \in DecodeOps /\ cancelled /\ Done) =>
        /\ outClosed /\ errClosed /\ proc = "exited"
        /\ kills = 1 => (terms = 1 /\ exitCode = SignalRc(9))

\* C6 witness: the consumer took one of two written frames and closed the
\* iterator; the engine survived SIGTERM and was killed.
C6_Witness ==
    /\ op = "QX" /\ cancelled /\ Done
    /\ Len(got) = 1 /\ framesWritten = 2 /\ kills = 1

\* the engine is blocked writing to a full stderr pipe
EngineBlockedOnStderr ==
    /\ proc = "running" /\ eop = "err"
    /\ ErrPiped /\ ~errClosed /\ Len(errPipe) = ErrCap

\* the caller is in a call without a timeout that only the engine can end:
\* a read of stdout, a write to a full stdin, a wait or poll loop for exit
CallerBlocked ==
    \/ pc \in {"rx_read", "qx_read"} /\ outPipe = <<>>
    \/ pc \in {"qw_write", "rw_write"} /\ idx <= Len(frames) /\ Len(inPipe) = InCap
    \/ pc \in {"qw_wait", "rw_wait", "fx_poll"}

\* C7 (as claimed): no state is reachable in which the engine is blocked on a
\* full stderr pipe that no thread drains while the caller is blocked on stdin,
\* stdout or the engine's exit.
C7_NoStderrDeadlock ==
    ~(EngineBlockedOnStderr /\ CallerBlocked /\ drain # "run")

\* C8 (as claimed): the frames yielded by extract_frames are the frames the
\* engine wrote, in order and without gaps, and when the end of a stream of
\* full frames is reached all of them have been yielded.
C8_OrderedComplete ==
    (op \in DecodeOps) =>
        /\ got = [i \in 1..Len(got) |-> i]
        /\ (pc \in {"rx_wait", "qx_wait"} /\ ~shortWritten) => Len(got) = framesWritten

\* C9 (as claimed): when an operation waits for the engine to exit (after
\* closing stdin, or in the poll loop) and the engine never exits, the
\* operation ends, with a timeout.
C9_BoundedWait ==
    (pc \in {"qw_wait", "rw_wait", "sg_wait", "fx_poll"} /\ proc = "running" /\ eop = "hang")
        ~> (Done /\ timedOut)

\* C10 (as claimed): the error raised by the subprocess variant of
\* extract_frames for a non-zero exit code carries every stderr line the engine
\* wrote.
C10_ErrorPayload ==
    (op = "RX" /\ err = "RuntimeError") =>
        \A j \in 1..errWritten : j \in Range(payload)

\* C11: a partial final chunk on the engine's stdout is reported as an error:
\* no frame is ever built from it, and the decoder never takes the
\* end-of-stream path (the wait for the engine's exit status) after the engine
\* has written one.
C11_PartialChunkError ==
    (op \in DecodeOps) =>
        /\ \A i \in 1..Len(got) : ~IsShort(got[i])
        /\ ~(shortWritten /\ pc \in {"rx_wait", "qx_wait"})

\* the error the call raised came from a failed engine run (its message is
\* the per-attempt message), resp. from any other exception
EngineErrorRaised == raised # None /\ Value(raised).message.attempt > 0
NonEngineError(e) == e # None /\ Value(e).message.attempt = 0

C13_OnlyEngineRetried ==
    (op \in RetryOps) =>
        /\ input # "ok" =>
              /\ runs = 0 /\ ledgerWrites = 0 /\ ledger = None
              /\ pc \in {"ewr_begin", "done"}
              /\ Done => /\ raised # None
                         /\ Value(raised).type \in {"FileNotFoundError", "ValueError",
                                                     "AttributeError"}
        /\ NonEngineError(last_error) =>
              /\ pc \in {"ewr_failed", "done"}
              /\ runs <= attempt + 1
              /\ Done => raised = last_error

C13_Witness ==
    /\ op = "OP" /\ Done /\ retries = MaxRetries
    /\ NonEngineError(raised) /\ Value(raised).message.text = "Exception"
    /\ attempt = 1 /\ runs = 1 /\ Len(stderrs) = 1

\* C14: the FFmpegOperationError raised after the retries are exhausted
\* carries the stderr text of the final failed attempt (None when that text
\* is empty), and names the final attempt.
C14_LastError ==
    (op \in RetryOps /\ Done /\ EngineErrorRaised) =>
        /\ Value(raised).type = "FFmpegOperationError"
        /\ Value(raised).ffmpeg_error = DecodeStderr(stderrs[Len(stderrs)])
        /\ Value(raised).message.attempt = retries

C14_Witness ==
    /\ op = "OP" /\ Done /\ EngineErrorRaised
    /\ Len(stderrs) = MaxRetries
    /\ stderrs[1] = "e1" /\ stderrs[Len(stderrs)] = "e2"
    /\ Value(raised).ffmpeg_error = Some("e2")

\* C17: an AudioProcessor operation on a valid input during which no engine
\* run failed returns a result, and leaves a ledger with status "completed"
\* and a last_processed that names the produced unit.
C17_AudioCompleted ==
    (op = "AP" /\ Done /\ input = "ok" /\ retries > 0 /\ stderrs = <<>>) =>
        /\ raised = None
        /\ result # None
        /\ ledger # None
        /\ Value(ledger).status = "completed"
        /\ Value(ledger).last_processed # None

\* C15: when FrameExtractor.extract_frames ends with FFmpegOperationError
\* because the engine run failed, the engine has been invoked config.retries
\* times.
C15_FramesRetried ==
    (/\ op = "FE" /\ Done /\ raised # None
     /\ Value(raised).type = "FFmpegOperationError") => runs = retries

\* C18: a completed extraction, the deletion of a strict subset of its units,
\* and a re-run with resume=True: the re-run returns the unit names and
\* hashes of the first run, and the engine writes exactly the deleted units.
C18_IdempotentResume ==
    (/\ op = "FE" /\ Done /\ result # None /\ resume
     /\ original # None /\ deleted # {} /\ deleted # DOMAIN Value(original)) =>
        /\ Value(result).frame_files = Value(original)
        /\ written = deleted

\* C19: once extract_frames has started the engine, a call that ended by an
\* error or interruption leaves a ledger with status in_progress or failed
\* that covers every unit written so far, and a call that returned leaves a
\* ledger with status completed that lists every returned unit with its hash.
C19_IncrementalLedger ==
    (op = "FE" /\ Done /\ runs > 0) =>
        /\ ledger # None
        /\ raised # None =>
              /\ Value(ledger).status \in {"in_progress", "failed"}
              /\ \A n \in written :
                    /\ n \in DOMAIN Value(ledger).frame_integrity
                    /\ Value(ledger).frame_integrity[n] = calculate_frame_hash(n)
              /\ Value(ledger).completed_frames >= Cardinality(written)
        /\ result # None =>
              /\ Value(ledger).status = "completed"
              /\ Value(ledger).frame_integrity = Value(result).frame_files

\* the units of a directory whose content hashes to the value stored for them
Matching(dir, frame_integrity) ==
    {n \in DOMAIN dir : /\ Readable(dir[n])
                        /\ n \in DOMAIN frame_integrity
                        /\ frame_integrity[n] = calculate_frame_hash(dir[n])}

\* C20: _verify_existing_frames returns exactly the existing units whose
\* current hash equals the stored hash, each with that hash; every other
\* existing unit is deleted, the matching ones are left as they are, and the
\* call does not raise.
C20_VerifyExact ==
    [][(op = "VF" /\ pc' = "fe_verified") =>
          LET keep == Matching(outdir, Value(metadata).frame_integrity)
          IN /\ Value(result').valid_frames =
                   [n \in keep |-> calculate_frame_hash(outdir[n])]
             /\ outdir' = [n \in keep |-> outdir[n]]
             /\ raised' = None]_vars

C20_Witness ==
    /\ op = "VF" /\ pc = "fe_verified"
    /\ DOMAIN Value(result).valid_frames = {1}
    /\ DOMAIN outdir = {1}
    /\ deleted = {2}
    /\ 2 \in DOMAIN Value(metadata).frame_integrity

\* C16: a ProcessingMetadata object never has completed_frames above
\* total_frames while total_frames is known, whatever is assigned to it.
C16_CompletedWithinTotal ==
    (op = "PM" /\ metadata # None /\ Value(metadata).total_frames # None) =>
        Value(metadata).completed_frames <= Value(Value(metadata).total_frames)

\* C21: whenever a _create_metadata_file call was interrupted, a reader of
\* .metadata.json finds the complete previous ledger (or no file if there was
\* none) or the complete new ledger, never an empty or truncated document.
C21_AtomicLedger ==
    pc = "mf_killed" =>
        \/ file = None /\ ledger = None
        \/ /\ file # None
           /\ Parse(Value(file)) # None
           /\ Parse(Value(file)) \in {ledger, metadata}

\* the command the description of build_command prescribes for request r:
\* program and input, "-ss" if start_time is set, "-t" with the duration if
\* end_time is set, one "-vf" with fps before scale, the output path last
Described(r) ==
    <<"ffmpeg", "-i", r.input_path>>
    \o (IF r.start_time # None THEN <<"-ss", StrFloat(Value(r.start_time))>> ELSE <<>>)
    \o (IF r.end_time # None
        THEN <<"-t", StrFloat(Value(r.end_time) - OrZero(r.start_time))>> ELSE <<>>)
    \o (IF r.fps # None \/ r.resolution # None
        THEN <<"-vf",
               Join((IF r.fps # None
                     THEN <<"fps=" \o ToString(Value(r.fps))>> ELSE <<>>)
                    \o
                    (IF r.resolution # None
                     THEN <<"scale=" \o ToString(Value(r.resolution)[1]) \o ":"
                                     \o ToString(Value(r.resolution)[2])>>
                     ELSE <<>>))>>
        ELSE <<>>)
    \o (IF r.output_path # None THEN <<Value(r.output_path)>> ELSE <<>>)

\* every field of r that is set holds a value that is valid on its own:
\* times are not negative, fps and the resolution are positive
FieldsValid(r) == FFmpegCommandValid(ArgsOf(r))

\* C22: for a request whose fields are each valid, the list
\* FFmpegCommand.build_command returns is, in this order, "ffmpeg", "-i",
\* input, then "-ss" start_time if set, then "-t" duration if end_time is
\* set, then a single "-vf" with fps before scale, then the output path if set.
C22_CommandOrder ==
    (pc = "rc_done" /\ FieldsValid(Value(request)))
        => cmd = Some(Described(Value(request)))

\* both times are set and end_time - start_time is not positive
NonPositiveDuration(r) ==
    /\ r.start_time # None /\ r.end_time # None
    /\ Value(r.end_time) - Value(r.start_time) <= 0

\* C23: neither build_command nor build_stream returns a command for a
\* request whose duration end_time - start_time is not positive.
C23_DurationRejected ==
    (pc \in {"rc_done", "qc_done"} /\ FieldsValid(Value(request)))
        => ~NonPositiveDuration(Value(request))

\* C24: no request object (FFmpegCommand of either package, VideoReaderConfig,
\* or the FFmpegCommand built by extract_frames) exists with both times set
\* and end_time <= start_time.
C24_RejectedAtConstruction ==
    (request # None /\ FieldsValid(Value(request)))
        => ~NonPositiveDuration(Value(request))

\* parts are "num", "den" with integers num > 0 and den > 0
PositiveRatio(parts) ==
    /\ Len(parts) = 2
    /\ ParseInt(parts[1]) # None /\ ParseInt(parts[2]) # None
    /\ Value(ParseInt(parts[1])) > 0 /\ Value(ParseInt(parts[2])) > 0

\* C25: whenever FrameExtractor._build_ffmpeg_stream has run with a config
\* whose fps has the form "a/b", a and b are integers with a > 0 and b > 0:
\* strings such as "0/1", "-1/1" and "1/0" were rejected when the
\* FrameExtractionConfig was constructed.
C25_FpsValidated ==
    (pc = "fec_done" /\ Len(Value(result).fps) = 2)
        => PositiveRatio(Value(result).fps)

\* a probe that ran on a readable file whose r_frame_rate is "num/0"
ZeroDenominator ==
    /\ input = "ok" /\ probed # None
    /\ Len(Value(probed)) = 2
    /\ ParseInt(Value(probed)[1]) # None
    /\ ParseInt(Value(probed)[2]) = Some(0)

\* C26: when the probe document carries an r_frame_rate "num/0", VideoReader
\* construction and FFmpegWrapper.get_video_info fail with the probe error
\* kind (RuntimeError from _load_metadata, FFmpegError from get_video_info),
\* the kind used for missing or unparseable metadata.
C26_ProbeErrorKind ==
    (ZeroDenominator /\ pc \in {"done", "qf_run"} /\ probes > 0 /\ raised # None)
        => Value(raised).type \in {"RuntimeError", "FFmpegError"}

\* C27: a VideoReader session has probed the source exactly once, in its
\* constructor, however many read_frames, extract_frame_at,
\* extract_frames_range and extract_frame_sequence calls were made on it.
C27_ProbeOnce ==
    pc = "vr_ready" => probes = 1

NotFound(e) == e # None /\ Value(e).type = "FileNotFoundError"

\* C28: a step that raises FileNotFoundError makes no probe and starts no
\* engine; calling extract_frames does nothing yet, and the first next() on
\* it raises FileNotFoundError exactly if the path does not exist and
\* skip_validation is false; VideoReader(path, skip_validation=skip) raises
\* FileNotFoundError exactly if the path does not exist and skip is false.
C28_ExistenceFirst ==
    [][/\ (NotFound(raised') /\ raised' # raised)
            => (probes' = probes /\ runs' = runs /\ input = "missing")
       /\ (pc = "rq_idle" /\ pc' \in {"rf_gen", "qf_gen"})
            => (raised' = None /\ probes' = 0 /\ runs' = 0)
       /\ (pc \in {"rf_gen", "qf_gen"} /\ pc' \in {"rf_run", "qf_run"})
            => (NotFound(raised')
                  <=> (input = "missing" /\ ~Value(result).skip_validation))
       /\ (pc = "rq_idle" /\ pc' \in {"done", "vr_ready"} /\ request' # None)
            => (NotFound(raised')
                  <=> (input = "missing" /\ ~Value(request').skip_validation))
      ]_vars

C28_Witness ==
    /\ pc \in {"rf_run", "qf_run"}
    /\ input = "missing" /\ ~Value(result).skip_validation
    /\ NotFound(raised) /\ probes = 0 /\ runs = 0

\* C29: when VideoWriter.write_frames (either package) has failed after the
\* engine was spawned, the file at output_path is complete or absent, never
\* partially written.
C29_NoPartialOutput ==
    (op \in {"QW", "RW"} /\ Done /\ Spawned /\ err # "none")
        => OutputFile \in {"complete", "absent"}

\* C30: AudioGenerator.generate and VideoGenerator.generate return
\* output_path only if the engine exited with code 0; after a non-zero exit
\* the call has raised.
C30_GenerateChecksExit ==
    (op = "SG" /\ frames # <<>> /\ Done /\ Spawned /\ err = "none") => exitCode = 0

\* C33: a call of execute_with_retry that got past input validation and then
\* raised has made at least one attempt: the engine ran, or an attempt failed
\* before the engine and was recorded as last_error (no constructible config
\* has retries < 1).
C33_AtLeastOneAttempt ==
    (op \in RetryOps /\ Done /\ metadata # None /\ raised # None)
        => (runs >= 1 \/ last_error # None)

\* C37: within one execute_with_retry call a ledger that says "completed" is
\* never rewritten with another status, and when the call has ended the ledger
\* says "completed" exactly if the call returned a result, and "failed"
\* otherwise.
C37_LedgerStatusMonotonic ==
    [][/\ (ledger # None /\ Value(ledger).status = "completed")
            => Value(ledger').status = "completed"
       /\ (pc' = "done" /\ ledger' # None)
            => /\ (Value(ledger').status = "completed") <=> (result' # None)
               /\ Value(ledger').status \in {"completed", "failed"}
      ]_vars

\* C38: reelpy extract_frames: when stream_reader on the stderr thread has
\* timed out, the call ends with FFmpegTimeoutError.
C38_DrainTimeoutSurfaced ==
    (op = "RX" /\ Done /\ srTimedOut) => err = "FFmpegTimeoutError"

\* C35: the frame_files and total_frames that FrameExtractor.extract_frames
\* returns are exactly the units the engine wrote during that call: units
\* left in the directory by an earlier extraction at another fps are not
\* counted.
C35_OnlyThisInvocation ==
    (op = "FE" /\ Done /\ result # None) =>
        /\ DOMAIN Value(result).frame_files = written
        /\ Value(result).total_frames = Cardinality(written)

\* C36: extract_frames can be repeated on the same video and episode
\* directory, also for a video name with spaces: no run fails on the output
\* directory, and every run returns episode_dir/frames/<video stem> as its
\* output_directory.
C36_RepeatableDirectory ==
    (op = "FE" /\ Done) =>
        /\ raised # None => Value(raised).type # "OSError"
        /\ result # None => Value(result).output_directory = video.stem

\* C34: AudioProcessor.extract_audio, convert_audio and mix_audio on a valid
\* input return a result whose output_path carries the configured container
\* format as its extension, whatever the extension of the input.
C34_OutputNamedByFormat ==
    (op = "AP" /\ Done /\ input = "ok" /\ retries > 0 /\ stderrs = <<>>) =>
        /\ result # None
        /\ Value(result).output_path.suffix = Value(result).format

RECURSIVE Sum(_)
Sum(q) == IF q = <<>> THEN 0 ELSE Head(q) + Sum(Tail(q))

\* C32: the synthetic generators stream exactly int(duration * rate) units,
\* in generation order: VideoGenerator int(duration * fps) frames, and
\* AudioGenerator chunks of at most sample_rate sample frames whose lengths
\* sum to int(duration * sample_rate), for every pattern.
C32_StreamedUnits ==
    /\ pc = "vg_done" =>
          LET config == Value(request)
              written_frames == Value(result)
          IN /\ raised = None
             /\ Len(written_frames) = Trunc(config.duration * config.fps, 1000)
             /\ \A i \in DOMAIN written_frames : written_frames[i] = i - 1
    /\ pc = "ag_done" =>
          LET config == Value(request)
              chunks == Value(result)
          IN /\ raised = None
             /\ \A i \in DOMAIN chunks : chunks[i] <= config.sample_rate
             /\ Sum(chunks) = Trunc(config.duration * config.sample_rate, 1000)

\* the timestamps the sequence asked for should carry: frame_count values one
\* frame duration apart that start at the timestamp ("forward"), end at it
\* ("backward") or are centred on it ("both")
Expected(a, fps) ==
    LET first == CASE a.direction = "forward" -> a.timestamp
                   [] a.direction = "backward" ->
                          a.timestamp - (a.frame_count - 1) * frame_duration(fps)
                   [] OTHER ->
                          a.timestamp - (a.frame_count \div 2) * frame_duration(fps)
    IN [i \in 1..a.frame_count |-> first + (i - 1) * frame_duration(fps)]

\* C31: a finished extract_frame_sequence(timestamp, frame_count, direction)
\* has yielded exactly frame_count timestamps, one frame duration apart,
\* starting at, ending at or centred on the timestamp according to the
\* direction; any other direction raised ValueError.
C31_FrameSequence ==
    (sequence # None /\ Value(sequence).state = "finished") =>
        LET g == Value(sequence)
            fps == Value(result).fps
        IN IF g.asked.direction \notin {"both", "forward", "backward"}
           THEN g.raised # None /\ Value(g.raised).type = "ValueError"
           ELSE (\A i \in 1..g.asked.frame_count : Expected(g.asked, fps)[i] >= 0)
                    => /\ g.raised = None
                       /\ g.yielded = Expected(g.asked, fps)

====
